---- MODULE Spec2Model ----
(***************************************************************************)
(* A model of biti-wo (BitiWo/dbase.py, extractorbilibili.py, main.py):    *)
(* the sqlite store, the paginated remote source, the member               *)
(* synchronisation driven from the Gtk main loop (the owner) through       *)
(* thread pools, the cover-image loader and the cache cleaner.             *)
(***************************************************************************)
EXTENDS Integers, Sequences, FiniteSets, TLC

(***************************************************************************)
(* Bounds of the model.                                                    *)
(***************************************************************************)
MaxMid == 2           \* member ids are 1..MaxMid
MaxVideos == 2        \* videos a member publishes on the remote side
MaxJobs == 2          \* work in flight in all pools (jobs and their callbacks)
PageSize == 1         \* items on a page of the remote listing ("ps", scaled down)
InsertStep == 1       \* rows insert_generator adds per owner step ("step", scaled down)
AppendStep == 1       \* rows append_members adds per owner step ("step", scaled down)
MaxRows == 3          \* rows in the listbox or with an image job
MaxTick == 2          \* seconds the clock runs past the grace period
MaxStamp == 2         \* time stamps 0..MaxStamp of removed_member rows
FetchMaxPages == 2    \* pages of the remote listing (get_new_videos alone)
FetchPageLen == 2     \* items on one page (get_new_videos alone)
FetchMaxCreated == 1  \* created values 0..FetchMaxCreated (get_new_videos alone)
StoreMaxBvid == 2     \* bvids 1..StoreMaxBvid (add_member_videos alone)
StoreMaxBatch == 2    \* rows of one batch (add_member_videos alone)
StoreMaxInserts == 3  \* rows inserted in one run (add_member_videos alone)
MaxPoolJobs == 2      \* jobs pending or running in one executor (do_quit alone)
PagesMaxTotal == 12   \* items the server reports (get_all_video_pages alone)
PagesMaxSize == 8     \* the server's page size (get_all_video_pages alone)
QueryMaxBvid == 3     \* bvids 1..QueryMaxBvid (get_member_videos alone)
QueryMaxCreated == 2  \* created values 0..QueryMaxCreated (get_member_videos alone)
MatchMaxKey == 3      \* characters of a search key (match_func alone)
MatchMaxValue == 2    \* characters of the text searched (match_func alone)
MaxMissing == 1       \* expected columns a table of an older store file lacks

Mids == 1..MaxMid
None == -1            \* Python's None where the code expects a number

(***************************************************************************)
(* State.                                                                  *)
(***************************************************************************)
VARIABLES
    members,          \* table members: the mid of its rows, in rowid order
    videos,           \* table videos as the connection sees it: a set of rows
    durable,          \* table videos as the last commit left it on disk
    config,           \* table config: a set of rows [key, value]
    removed_member,   \* table removed_member: a set of rows [mid, time_stamp]
    remote,           \* the remote listing: mid -> sequence of pages of items
    futures,          \* executor_member_loader: the futures not yet finished
    owner_queue,      \* callbacks handed to main_thread_run, not yet run
    update_member_waiting_list,  \* Controller.update_member_waiting_list (keys in order)
    update_all_source_id,        \* Controller.update_all_source_id
    updator,          \* the update_all_member_videos generator a timer drives
    liststore_member, \* the displayed member list
    member_id_at_cursor,         \* the member under the cursor, -1 without one
    listbox,          \* the displayed video list: its rows, each with its image job
    unparented,       \* rows out of the listbox whose image job is not over
    load_video_source_id,        \* Controller.load_video_source_id
    insertor,         \* the insert_generator a timer drives
    misc_jobs,        \* executor_misc_loader: the futures not yet finished
    timestamp_last_sweep,            \* CacheCleaner.timestamp_last_sweep
    timestamp_last_orphaned_check,   \* CacheCleaner.timestamp_last_orphaned_check
    sweep_threads,    \* the threads running do_sweep_mid_list
    now,              \* time.time()
    inserts,          \* the rows handed to INSERT INTO videos, in order (observation)
    executors,        \* the four ThreadPoolExecutors as shutdown sees them: the
                      \* jobs each has pending and running, and whether it is
                      \* shut down
    loading_member,   \* Controller.loading_member
    record_order_id,  \* Handler.record_order_id: the timer of the save, -1 without
    appender,         \* append_members of load_members: the mids it has still to
                      \* append, and whether its timer is waiting
    table_info,       \* the tables of the store file: the columns each has
                      \* (PRAGMA_TABLE_INFO) and its rows
    last              \* the program's last step: its operation, its context, and
                      \* what the operation was given and did (observation)

storeVars == <<members, videos, durable, config, removed_member>>
syncVars == <<futures, update_member_waiting_list, update_all_source_id, updator>>
listVars == <<listbox, unparented, load_video_source_id, insertor>>
uiVars == <<liststore_member, member_id_at_cursor, listVars, misc_jobs>>
cleanVars == <<timestamp_last_sweep, timestamp_last_orphaned_check, sweep_threads, now>>
loadVars == <<loading_member, record_order_id, appender>>
vars == <<storeVars, remote, syncVars, owner_queue, uiVars, cleanVars, inserts, executors, table_info,
          loadVars, last>>

\* A step of the program in a context: the owner (the Gtk main loop) or a
\* worker thread.
Step(op, context) == [op |-> op, ctx |-> context]

SeqsUpTo(S, n) == UNION {[1..k -> S] : k \in 0..n}

RECURSIVE Flatten(_)
Flatten(pp) == IF pp = <<>> THEN <<>> ELSE Head(pp) \o Flatten(Tail(pp))

RemoveAt(s, i) == SubSeq(s, 1, i - 1) \o SubSeq(s, i + 1, Len(s))


Max(S) == CHOOSE x \in S : \A y \in S : y <= x
Min(S) == CHOOSE x \in S : \A y \in S : x <= y
Range(s) == {s[i] : i \in 1..Len(s)}
Reverse(s) == [i \in 1..Len(s) |-> s[Len(s) + 1 - i]]

(***************************************************************************)
(* Python values that reach the config table: str, list, number, None.     *)
(***************************************************************************)
PyStr(s) == [t |-> "str", v |-> s]
PyList(l) == [t |-> "list", v |-> l]
PyNum(n) == [t |-> "num", v |-> n]
PyNone == [t |-> "none", v |-> 0]
\* Python's ==: values of different types are never equal.
PyEq(a, b) == a.t = b.t /\ a.v = b.v

RECURSIVE JoinInts(_)
JoinInts(l) ==
    IF l = <<>> THEN ""
    ELSE IF Len(l) = 1 THEN ToString(l[1])
    ELSE ToString(l[1]) \o ", " \o JoinInts(Tail(l))

\* json.dumps of a list of integers, json.loads of such a text.
OrderLists == SeqsUpTo(Mids, MaxMid)
json_dumps(l) == "[" \o JoinInts(l) \o "]"
json_loads(s) == CHOOSE l \in OrderLists : json_dumps(l) = s

\* str(): a str is itself, a number its decimal text.
str(x) == IF x.t = "str" THEN x ELSE PyStr(ToString(x.v))
\* float() of a config text: the number with that text.
Week == 7 * 24 * 3600
TimeValues == (0..MaxStamp) \cup (Week..(Week + MaxStamp + MaxTick + 2))
float(x) == CHOOSE n \in TimeValues : ToString(n) = x.v

(***************************************************************************)
(* dbase.py                                                                *)
(***************************************************************************)
StructuredKeys == {"member_order"}

\* A get_config that hands out the stored text of every key.
get_config_of_plain(tbl, key) ==
    IF \E row \in tbl : row.key = key
    THEN PyStr((CHOOSE row \in tbl : row.key = key).value)
    ELSE PyNone

\* DataBase.get_config on a config table.
get_config_of(tbl, key) ==
    IF \E row \in tbl : row.key = key
    THEN LET value == (CHOOSE row \in tbl : row.key = key).value
         IN  IF key \in StructuredKeys THEN PyList(json_loads(value)) ELSE PyStr(value)
    ELSE PyNone

get_config(key) == get_config_of(config, key)

\* INSERT INTO config ... ON CONFLICT(key) DO UPDATE SET value=excluded.value
UpsertConfig(tbl, key, text) ==
    {row \in tbl : row.key # key} \cup {[key |-> key, value |-> text]}

\* DataBase.set_config on a config table: [config, wrote].
set_config_of(tbl, key, value) ==
    LET value1 == IF key \in StructuredKeys THEN PyStr(json_dumps(value.v)) ELSE value
        value2 == str(value1)
    IN  IF PyEq(value2, get_config_of(tbl, key))
        THEN [config |-> tbl, wrote |-> FALSE]
        ELSE [config |-> UpsertConfig(tbl, key, value2.v), wrote |-> TRUE]

\* An INSERT that lets the old row with the same bvid stand.
InsertVideo_keep(tbl, row) == tbl \cup {row}

\* bvid TEXT UNIQUE ON CONFLICT REPLACE: the row with that bvid gives way.
InsertVideo(tbl, row) == {r \in tbl : r.bvid # row.bvid} \cup {row}

\* DataBase.add_member_videos: executemany inserts the rows in order.
RECURSIVE add_member_videos(_, _)
add_member_videos(tbl, video_list) ==
    IF video_list = <<>> THEN tbl
    ELSE add_member_videos(InsertVideo(tbl, Head(video_list)), Tail(video_list))

\* DataBase.add_member_videos with a row, number bad of the batch, that
\* sqlite3 cannot bind: executemany has run the INSERT for the rows before
\* it inside the transaction it opened, the exception leaves the method
\* before conn.commit(), and nothing rolls the transaction back.
add_member_videos_failing(tbl, video_list, bad) ==
    add_member_videos(tbl, SubSeq(video_list, 1, bad - 1))

\* An UPDATE of visited by the member of the video: WHERE mid = (the mid of
\* bvid) in place of WHERE bvid=?.
set_video_visited_by_mid(vtbl, bvid, visited) ==
    {IF \E v \in vtbl : v.bvid = bvid /\ v.mid = r.mid
     THEN [r EXCEPT !.visited = visited] ELSE r : r \in vtbl}

\* DataBase.set_video_visited: UPDATE videos SET visited=? WHERE bvid=?
set_video_visited(vtbl, bvid, visited) ==
    {IF r.bvid = bvid THEN [r EXCEPT !.visited = visited] ELSE r : r \in vtbl}

\* DataBase.get_member_info: the members row or None.
get_member_info(mid) == IF mid \in Range(members) THEN mid ELSE None

\* An INSERT into a table members without the UNIQUE constraint.
add_member_twice(mtbl, mid) == [members |-> Append(mtbl, mid), raised |-> FALSE]

\* DataBase.add_member: mid INTEGER UNIQUE, a second row with the mid raises
\* IntegrityError.
add_member(mtbl, mid) ==
    IF mid \in Range(mtbl) THEN [members |-> mtbl, raised |-> TRUE]
    ELSE [members |-> Append(mtbl, mid), raised |-> FALSE]

\* DataBase.delete_member_videos, DataBase.delete_member
delete_member_videos(vtbl, mid) == {r \in vtbl : r.mid # mid}
delete_member(mtbl, mid) == LET Other(m) == m # mid IN SelectSeq(mtbl, Other)

\* DataBase.add_removed_member: the statement names the columns where it
\* needs placeholders, sqlite3 raises OperationalError and no row is added.
add_removed_member(tbl, mid, time_stamp) == [removed_member |-> tbl, raised |-> TRUE]

\* DataBase.get_last_update: SELECT MAX(created), None without a row.
get_last_update_of(vtbl, mid) ==
    LET cs == {r.created : r \in {r \in vtbl : r.mid = mid}}
    IN  IF cs = {} THEN None ELSE Max(cs)

get_last_update(mid) == get_last_update_of(videos, mid)

\* A set of rows ORDER BY created DESC (rows of equal created in some order).
RECURSIVE OrderByCreatedDesc(_)
OrderByCreatedDesc(sel) ==
    IF sel = {} THEN <<>>
    ELSE LET top == CHOOSE r \in sel : \A q \in sel : q.created <= r.created
         IN  <<top>> \o OrderByCreatedDesc(sel \ {top})

\* DataBase.get_newer_video_by_mid on tables: videos INNER JOIN members;
\* created > NULL selects no row.
get_newer_video_by_mid(mtbl, vtbl, mid, last_update) ==
    OrderByCreatedDesc({r \in vtbl : /\ r.mid \in Range(mtbl)
                                     /\ r.mid = mid
                                     /\ last_update # None
                                     /\ r.created > last_update})

\* The first count elements of a sequence, all of it for a negative count.
Limit(s, count) == IF count < 0 \/ count >= Len(s) THEN s ELSE SubSeq(s, 1, count)

\* SELECT videos.*, name FROM videos INNER JOIN members USING(mid)
\* WHERE videos.mid=?: the rows of mid, none without a members row of mid.
QBASE(mtbl, vtbl, mid) == {r \in vtbl : r.mid \in Range(mtbl) /\ r.mid = mid}

\* DataBase.get_member_videos on tables: one query for each of the four
\* cases of count < 0 and before < 0.
get_member_videos(mtbl, vtbl, mid, count, before) ==
    IF count < 0 /\ before < 0
    THEN OrderByCreatedDesc(QBASE(mtbl, vtbl, mid))
    ELSE IF count < 0
    THEN OrderByCreatedDesc({r \in QBASE(mtbl, vtbl, mid) : r.created < before})
    ELSE IF before < 0
    THEN Limit(OrderByCreatedDesc(QBASE(mtbl, vtbl, mid)), count)
    ELSE Limit(OrderByCreatedDesc({r \in QBASE(mtbl, vtbl, mid) : r.created < before}),
               count)

\* DataBase.get_video_count
get_video_count(vtbl, mid) == Cardinality({r \in vtbl : r.mid = mid})

\* DataBase.get_unvisited_count
get_unvisited_count(vtbl, mid) == Cardinality({r \in vtbl : r.mid = mid /\ r.visited = 0})


(***************************************************************************)
(* dbase.py: the tables of the store file and their migration.             *)
(***************************************************************************)
db_version == "0.1"

\* An entry of table_columns: "name TYPE" or "name TYPE UNIQUE ...".
Column(name, unique) == [name |-> name, unique |-> unique]

\* DataBase.setup_tables: table_columns of the tables update_table_scheme
\* goes through.
table_columns ==
    [members |-> <<Column("mid", TRUE), Column("name", FALSE),
                   Column("last_update", FALSE)>>,
     videos |-> <<Column("aid", FALSE), Column("bvid", TRUE), Column("mid", FALSE),
                  Column("created", FALSE), Column("title", FALSE),
                  Column("description", FALSE), Column("length", FALSE),
                  Column("picture_url", FALSE), Column("view_count", FALSE),
                  Column("comment", FALSE), Column("visited", FALSE)>>,
     removed_member |-> <<Column("mid", TRUE), Column("time_stamp", FALSE)>>]

Tables == <<"members", "videos", "removed_member">>

\* new_cols of update_table_scheme: c.lstrip().split()[0] of every entry.
ColumnNames(table) == {table_columns[table][i].name : i \in DOMAIN table_columns[table]}

\* A table the file does not have.
NoTable == [cols |-> {}, rows |-> {}]
NoTables == [t \in DOMAIN table_columns |-> NoTable]

\* DataBase.create_table: CREATE TABLE IF NOT EXISTS.
create_table(info, table_name) ==
    IF info[table_name] = NoTable
    THEN [info EXCEPT ![table_name] = [cols |-> ColumnNames(table_name), rows |-> {}]]
    ELSE info

\* DataBase.setup_tables
setup_tables(info) ==
    create_table(create_table(create_table(info, "members"), "videos"), "removed_member")

\* DataBase.get_table_columns
get_table_columns(info, table) == info[table].cols

\* ALTER TABLE table ADD COLUMN: sqlite refuses a UNIQUE column ("Cannot
\* add a UNIQUE column"); the rows get NULL in the new column.
\* [table, raised]
AddColumn(tbl, col) ==
    IF col.unique THEN [table |-> tbl, raised |-> TRUE]
    ELSE [table |-> [cols |-> tbl.cols \cup {col.name},
                     rows |-> {[c \in tbl.cols \cup {col.name} |->
                                   IF c = col.name THEN None ELSE row[c]] :
                               row \in tbl.rows}],
          raised |-> FALSE]

\* The inner loop of update_table_scheme over new_cols. [table, raised]
RECURSIVE AddMissing(_, _, _)
AddMissing(tbl, old_cols, new_cols) ==
    IF new_cols = <<>> THEN [table |-> tbl, raised |-> FALSE]
    ELSE IF Head(new_cols).name \in old_cols
         THEN AddMissing(tbl, old_cols, Tail(new_cols))
    ELSE LET res == AddColumn(tbl, Head(new_cols))
         IN  IF res.raised THEN res
             ELSE AddMissing(res.table, old_cols, Tail(new_cols))

\* The outer loop of update_table_scheme over the tables; an exception
\* leaves the columns added so far. [table_info, raised]
RECURSIVE MigrateTables(_, _)
MigrateTables(info, tables) ==
    IF tables = <<>> THEN [table_info |-> info, raised |-> FALSE]
    ELSE LET table == Head(tables)
             res == AddMissing(info[table], get_table_columns(info, table),
                               table_columns[table])
             info1 == [info EXCEPT ![table] = res.table]
         IN  IF res.raised THEN [table_info |-> info1, raised |-> TRUE]
             ELSE MigrateTables(info1, Tail(tables))

\* DataBase.update_table_scheme on a file. [table_info, config, raised]
update_table_scheme(info, cfg) ==
    IF PyEq(get_config_of(cfg, "db_version"), PyStr(db_version))
    THEN [table_info |-> info, config |-> cfg, raised |-> FALSE]
    ELSE LET res == MigrateTables(info, Tables)
         IN  IF res.raised
             THEN [table_info |-> res.table_info, config |-> cfg, raised |-> TRUE]
             ELSE [table_info |-> res.table_info,
                   config |-> set_config_of(cfg, "db_version", PyStr(db_version)).config,
                   raised |-> FALSE]

\* DataBase.__init__ on an existing file: setup_tables, update_table_scheme.
DataBase__init__ ==
    LET res == update_table_scheme(setup_tables(table_info), config)
    IN  /\ table_info' = res.table_info
        /\ config' = res.config
        /\ last' = [op |-> "DataBase.__init__", ctx |-> "owner", raised |-> res.raised,
                    before |-> table_info]
        /\ UNCHANGED <<members, videos, durable, removed_member, remote, syncVars,
                       owner_queue, uiVars, cleanVars, inserts, executors, loadVars>>

(***************************************************************************)
(* utils.py: match_func. A str is a sequence of characters.                *)
(***************************************************************************)
Chars == {"a", "b", "A", " "}

\* str.lower()
lower(s) == [i \in 1..Len(s) |-> IF s[i] = "A" THEN "a" ELSE s[i]]

\* str.split(): the words between runs of white space, no empty word.
RECURSIVE SplitFrom(_, _, _)
SplitFrom(s, word, words) ==
    IF s = <<>> THEN (IF word = <<>> THEN words ELSE Append(words, word))
    ELSE IF Head(s) = " "
         THEN SplitFrom(Tail(s), <<>>, IF word = <<>> THEN words ELSE Append(words, word))
    ELSE SplitFrom(Tail(s), Append(word, Head(s)), words)

split(s) == SplitFrom(s, <<>>, <<>>)

\* k in value, for two str.
In(k, value) ==
    \E i \in 0..(Len(value) - Len(k)) : SubSeq(value, i + 1, i + Len(k)) = k

\* IMMatcher: None when immatcher cannot be imported, else the matcher of
\* that library, whose contains(value, k) the model takes as given.
NoIMMatcher == [installed |-> FALSE, contains |-> <<>>]

\* A matcher that accepts as soon as one word is found.
RECURSIVE match_func_any(_, _, _)
match_func_any(key, value, IMMatcher) ==
    LET keys == split(lower(key))
        Found(k) == IF ~IMMatcher.installed THEN In(k, lower(value))
                    ELSE IMMatcher.contains[k]
    IN  keys = <<>> \/ \E i \in 1..Len(keys) : Found(keys[i])

\* The for loop of match_func over keys, from matched.
RECURSIVE MatchKeys(_, _, _, _)
MatchKeys(keys, value, IMMatcher, matched) ==
    IF keys = <<>> THEN matched
    ELSE LET k == Head(keys)
             miss == IF ~IMMatcher.installed THEN ~In(k, value)
                     ELSE ~IMMatcher.contains[k]
         IN  MatchKeys(Tail(keys), value, IMMatcher, IF miss THEN FALSE ELSE matched)

\* utils.match_func
match_func(key, value, IMMatcher) ==
    MatchKeys(split(lower(key)), lower(value), IMMatcher, TRUE)

(***************************************************************************)
(* extractorbilibili.py                                                    *)
(***************************************************************************)
\* get_video_page: the page the server returns; past the last page the
\* listing is empty.
get_video_page(mid, page_num) ==
    IF page_num \in 1..Len(remote[mid]) THEN remote[mid][page_num] ELSE <<>>

\* get_all_video_pages: page 1, then pages 2..total // page_size + 1.
get_all_video_pages(mid) ==
    LET total == Len(Flatten(remote[mid]))
    IN  Flatten([i \in 1..(total \div PageSize + 1) |-> get_video_page(mid, i)])

\* The server's page page_num of a listing cut into pages of page_size.
ServerPage(listing, page_size, page_num) ==
    SubSeq(listing, (page_num - 1) * page_size + 1,
           IF page_num * page_size < Len(listing) THEN page_num * page_size
           ELSE Len(listing))

\* get_all_video_pages against a server that reports page["count"] =
\* Len(listing) and page["ps"] = page_size: get_video_page(mid, 1), then
\* for i in range(2, total // page_size + 2). [requested, video_list]
get_all_video_pages_of(listing, page_size) ==
    LET total == Len(listing)
        requested == [i \in 1..(total \div page_size + 1) |-> i]
    IN  [requested |-> requested,
         video_list |-> Flatten([k \in 1..Len(requested) |->
                                    ServerPage(listing, page_size, requested[k])])]

\* The for loop of get_new_videos over one page: [out, stop, raised].
\* Comparing an integer with None raises TypeError.
RECURSIVE ScanPage(_, _, _)
ScanPage(video_list, last_update, new_videos) ==
    IF video_list = <<>> THEN [out |-> new_videos, stop |-> FALSE, raised |-> FALSE]
    ELSE IF last_update = None
         THEN [out |-> new_videos, stop |-> TRUE, raised |-> TRUE]
    ELSE IF Head(video_list).created > last_update
         THEN ScanPage(Tail(video_list), last_update, Append(new_videos, Head(video_list)))
    ELSE [out |-> new_videos, stop |-> TRUE, raised |-> FALSE]

\* A scan that filters the page instead of stopping at the first old item.
NewVideosTurn_filter(job) ==
    LET data_n == get_video_page(job.mid, job.n)
        IsNew(x) == x.created > job.last_update
    IN  IF Len(data_n) < 1
        THEN [out |-> job.new_videos, stop |-> TRUE, raised |-> FALSE]
        ELSE [out |-> job.new_videos \o SelectSeq(data_n, IsNew), stop |-> FALSE,
              raised |-> FALSE]

\* One turn of the while loop of get_new_videos for a job: [out, stop,
\* raised] after requesting page n.
NewVideosTurn(job) ==
    LET data_n == get_video_page(job.mid, job.n)
    IN  IF Len(data_n) < 1
        THEN [out |-> job.new_videos, stop |-> TRUE, raised |-> FALSE]
        ELSE ScanPage(data_n, job.last_update, job.new_videos)

(***************************************************************************)
(* main.py: the video list (listbox, VideoRow, cover images).              *)
(***************************************************************************)
bulk_size == 100
\* No generator: the closure of insert_generator holds mid, video_list and
\* reverse_insert; list is what its for loop has still to go through.
NoInsertor == [live |-> FALSE, mid |-> None, video_list |-> <<>>, list |-> <<>>,
               reverse |-> FALSE]

\* The LoadMoreVideoRow of a listbox.
LoadMoreVideoRow ==
    [bvid |-> 0, mid |-> 0, created |-> 0, image |-> FALSE, job |-> "none",
     listed |-> FALSE, survived |-> FALSE]

\* VideoRow(controller, vinfo) with the future of its load_image (the two
\* image executors run it alike): the job is
\* pending, running, at its callback set_image_cover, done or cancelled;
\* listed says that the future is in load_image_futures, survived that it
\* was running when the futures were cancelled.
VideoRow(vinfo) ==
    [bvid |-> vinfo.bvid, mid |-> vinfo.mid, created |-> vinfo.created,
     image |-> FALSE, job |-> "pending", listed |-> TRUE, survived |-> FALSE]

\* The display state the video-list code works on.
Ui == [listbox |-> listbox, unparented |-> unparented,
       load_video_source_id |-> load_video_source_id, insertor |-> insertor]

SetUi(U) ==
    /\ listbox' = U.listbox
    /\ unparented' = U.unparented
    /\ load_video_source_id' = U.load_video_source_id
    /\ insertor' = U.insertor

\* The body of the for loop of insert_generator for a list of vinfo: a
\* VideoRow is made and put into the listbox, its load_image is submitted.
RECURSIVE InsertRows(_, _, _)
InsertRows(U, list, reverse_insert) ==
    IF list = <<>> THEN U
    ELSE InsertRows([U EXCEPT !.listbox = IF reverse_insert
                                          THEN <<VideoRow(Head(list))>> \o @
                                          ELSE Append(@, VideoRow(Head(list)))],
                    Tail(list), reverse_insert)

\* next(insertor): the rows up to the next yield True, or the rest of the
\* list and the end of the generator. [ui, yielded]
insert_generator_next(U, vtbl) ==
    LET gen == U.insertor
        n == IF Len(gen.list) < InsertStep THEN Len(gen.list) ELSE InsertStep
        U1 == InsertRows(U, SubSeq(gen.list, 1, n), gen.reverse)
    IN  IF n = InsertStep
        THEN [ui |-> [U1 EXCEPT !.insertor.list = SubSeq(gen.list, n + 1, Len(gen.list))],
              yielded |-> TRUE]
        ELSE [ui |-> [U1 EXCEPT
                        !.listbox = IF gen.mid # None
                                       /\ get_video_count(vtbl, gen.mid) > Len(U1.listbox)
                                    THEN Append(U1.listbox, LoadMoreVideoRow)
                                    ELSE U1.listbox,
                        !.load_video_source_id = -1,
                        !.insertor = NoInsertor],
              yielded |-> FALSE]

\* future.cancel() for a future of load_image_futures, which is emptied
\* afterwards: a pending job is cancelled, a running one goes on.
Cancel(row) ==
    IF ~row.listed THEN row
    ELSE IF row.job = "pending" THEN [row EXCEPT !.job = "cancelled", !.listed = FALSE]
    ELSE IF row.job = "running" THEN [row EXCEPT !.survived = TRUE, !.listed = FALSE]
    ELSE [row EXCEPT !.listed = FALSE]

\* A row out of the listbox is garbage once its job is over.
JobAlive(row) == row.job \in {"pending", "running", "callback"}

CancelImageFutures(U) ==
    [U EXCEPT !.listbox = [i \in 1..Len(U.listbox) |-> Cancel(U.listbox[i])],
              !.unparented = {r \in {Cancel(row) : row \in U.unparented} : JobAlive(r)}]

\* row.destroy() (or listbox.remove(row)) for every row of the listbox.
DestroyRows(U) ==
    [U EXCEPT !.unparented = @ \cup {row \in Range(U.listbox) : JobAlive(row)},
              !.listbox = <<>>]

RemoveLastLoadMore(U) ==
    IF U.listbox # <<>> /\ U.listbox[Len(U.listbox)] = LoadMoreVideoRow
    THEN [U EXCEPT !.listbox = SubSeq(U.listbox, 1, Len(U.listbox) - 1)]
    ELSE U

\* Controller.load_videos_to_listbox: the display state after the call.
load_videos_to_listbox(U, vtbl, cursor, mid, video_list, clear, reverse_insert) ==
    IF mid # None /\ mid # cursor THEN U
    ELSE LET U1 == [CancelImageFutures(U) EXCEPT !.load_video_source_id = -1,
                                                 !.insertor = NoInsertor]
             U2 == IF clear THEN DestroyRows(U1) ELSE U1
             U3 == RemoveLastLoadMore(U2)
             U4 == [U3 EXCEPT !.insertor = [live |-> TRUE, mid |-> mid,
                                            video_list |-> video_list,
                                            list |-> IF reverse_insert
                                                     THEN Reverse(video_list)
                                                     ELSE video_list,
                                            reverse |-> reverse_insert]]
             res == insert_generator_next(U4, vtbl)
         IN  IF res.yielded
             THEN [res.ui EXCEPT !.load_video_source_id = 1]
             ELSE res.ui

\* The model keeps at most MaxRows rows with a place or a job.
RowsFit(U) == Len(U.listbox) + Cardinality(U.unparented) <= MaxRows

\* A callback that does not look at the row's parent.
set_image_cover_unchecked(row, parent) == [row EXCEPT !.image = TRUE, !.job = "done"]

\* VideoRow.load_image.set_image_cover: the row after the callback.
set_image_cover(row, parent) ==
    IF parent THEN [row EXCEPT !.image = TRUE, !.job = "done"]
    ELSE [row EXCEPT !.job = "done"]

(***************************************************************************)
(* main.py: the Controller. Owner steps are action handlers, timers and    *)
(* the callbacks of main_thread_run; worker steps run in an executor.      *)
(***************************************************************************)
NoSweep == [rows |-> {}, now |-> 0, remove_mid_list |-> <<>>, ret |-> FALSE]

\* main_thread_run(func, *args): GLib.timeout_add from any thread; the main
\* loop runs func later. Sources added from several threads have no order
\* the code can rely on: any waiting callback may run next.
main_thread_run(queue, callback) == Append(queue, callback)

\* Work in flight: the futures of the member and misc executors and the
\* callbacks they handed over, the image jobs a thread has taken and their
\* callbacks, the sweep threads.
InFlight ==
    Len(futures) + Len(misc_jobs) + Len(owner_queue)
    + Cardinality({i \in 1..Len(listbox) : listbox[i].job \in {"running", "callback"}})
    + Cardinality({row \in unparented : row.job \in {"running", "callback"}})
    + Cardinality({t \in sweep_threads : t.pc = "started"})

\* Controller.member_video_data_to_db_format
member_video_data_to_db_format(video_info_list) ==
    [i \in 1..Len(video_info_list) |->
        [bvid |-> video_info_list[i].bvid, mid |-> video_info_list[i].mid,
         created |-> video_info_list[i].created, ver |-> video_info_list[i].ver,
         visited |-> 0]]

\* Controller.setup_member_row_data
setup_member_row_data(vtbl, mid) ==
    [mid |-> mid, lastupdate |-> get_last_update_of(vtbl, mid),
     newitem |-> get_unvisited_count(vtbl, mid)]

\* Controller.get_member_row_by_mid: the place of the first row, 0 for None.
get_member_row_by_mid(store, mid) ==
    LET at == {i \in 1..Len(store) : store[i].mid = mid}
    IN  IF at = {} THEN 0 ELSE Min(at)

\* A future of update_member_videos: do_it with its mid and last_update, the
\* page get_new_videos asks for next and what it has collected.
SyncJob(mid, last_update, by_all) ==
    [kind |-> "sync", mid |-> mid, last_update |-> last_update, n |-> 1,
     new_videos |-> <<>>, by_all |-> by_all, waited |-> by_all]

Without(s, x) == LET Other(y) == y # x IN SelectSeq(s, Other)

(***************************************************************************)
(* Incremental synchronisation of one member.                              *)
(***************************************************************************)
\* Controller.update_member_videos: minfo['name'] raises TypeError for a mid
\* that is no member, before anything is changed. [raised, waiting, futures]
update_member_videos(waiting, fs, mid, by_all) ==
    IF get_member_info(mid) = None
    THEN [raised |-> TRUE, waiting |-> waiting, futures |-> fs]
    ELSE [raised |-> FALSE, waiting |-> Without(waiting, mid),
          futures |-> Append(fs, SyncJob(mid, get_last_update(mid), by_all))]

\* Controller.on_update_member_videos (action update-member-videos)
on_update_member_videos(mid) ==
    /\ InFlight < MaxJobs
    /\ LET res == update_member_videos(update_member_waiting_list, futures, mid, FALSE)
       IN  /\ ~res.raised
           /\ futures' = res.futures
           /\ update_member_waiting_list' = res.waiting
    /\ last' = [op |-> "on_update_member_videos", ctx |-> "owner", mid |-> mid,
                popped |-> mid \in Range(update_member_waiting_list)]
    /\ UNCHANGED <<storeVars, remote, update_all_source_id, updator, owner_queue,
                   uiVars, cleanVars, inserts, executors, table_info, loadVars>>

\* Controller.add_new_member_videos, the callback of do_it, on the state:
\* the store and the display after it, what it reported, and whether it
\* raised (minfo['name'] with no members row, mrow.path with no list row).
add_new_member_videos(cb) ==
    LET minfo == get_member_info(cb.mid)
        video_data_list == member_video_data_to_db_format(cb.new_video_info_list)
        vtbl == add_member_videos(videos, video_data_list)
        video_list == get_newer_video_by_mid(members, vtbl, cb.mid, cb.last_update)
        U == IF member_id_at_cursor = cb.mid
             THEN load_videos_to_listbox(Ui, vtbl, member_id_at_cursor,
                                         cb.mid, video_list, FALSE, TRUE)
             ELSE Ui
        mrow == get_member_row_by_mid(liststore_member, cb.mid)
    IN  IF Len(cb.new_video_info_list) <= 0
        THEN [videos |-> videos, ui |-> Ui, liststore_member |-> liststore_member,
              video_list |-> <<>>, raised |-> minfo = None]
        ELSE IF Len(video_list) > 0
        THEN [videos |-> vtbl, ui |-> U,
              liststore_member |->
                  IF mrow = 0 THEN liststore_member
                  ELSE [liststore_member EXCEPT ![mrow] = setup_member_row_data(vtbl, cb.mid)],
              video_list |-> video_list, raised |-> mrow = 0 \/ minfo = None]
        ELSE [videos |-> vtbl, ui |-> Ui, liststore_member |-> liststore_member,
              video_list |-> video_list, raised |-> minfo = None]

\* The state after add_new_member_videos(cb), in the context that calls it.
AddNewMemberVideos(cb, context) ==
    LET res == add_new_member_videos(cb)
    IN  /\ RowsFit(res.ui)
        /\ videos' = res.videos
        /\ durable' = res.videos
        /\ SetUi(res.ui)
        /\ liststore_member' = res.liststore_member
        /\ last' = [op |-> "add_new_member_videos", ctx |-> context, mid |-> cb.mid,
                    last_update |-> cb.last_update,
                    new_video_info_list |-> cb.new_video_info_list,
                    video_list |-> res.video_list, raised |-> res.raised]

\* A job that calls add_new_member_videos itself, in the worker thread.
do_it_direct(j) ==
    /\ j \in 1..Len(futures)
    /\ futures[j].kind = "sync"
    /\ LET job == futures[j]
           turn == NewVideosTurn(job)
       IN  IF turn.stop
           THEN /\ futures' = RemoveAt(futures, j)
                /\ IF turn.raised
                   THEN /\ last' = Step("do_it", "worker")
                        /\ UNCHANGED <<videos, durable, listVars, liststore_member>>
                   ELSE AddNewMemberVideos([func |-> "add_new_member_videos",
                                            mid |-> job.mid,
                                            new_video_info_list |-> turn.out,
                                            last_update |-> job.last_update,
                                            requested |-> job.n], "worker")
           ELSE /\ futures' = [futures EXCEPT ![j].n = job.n + 1,
                                              ![j].new_videos = turn.out]
                /\ last' = Step("do_it", "worker")
                /\ UNCHANGED <<videos, durable, listVars, liststore_member>>
    /\ UNCHANGED <<members, config, removed_member, remote, update_member_waiting_list,
                   update_all_source_id, updator, owner_queue, member_id_at_cursor,
                   misc_jobs, cleanVars, inserts, executors, table_info, loadVars>>

\* Controller.update_member_videos.do_it in the member-loader executor, one
\* page per step (get_new_videos sleeps between pages): get_new_videos, then
\* main_thread_run(add_new_member_videos). An exception ends the job; the
\* future captures it. The callback carries the number of pages the job
\* asked for (requested, an observation).
do_it(j) ==
    /\ j \in 1..Len(futures)
    /\ futures[j].kind = "sync"
    /\ LET job == futures[j]
           turn == NewVideosTurn(job)
       IN  IF turn.stop
           THEN /\ futures' = RemoveAt(futures, j)
                /\ owner_queue' =
                     IF turn.raised THEN owner_queue
                     ELSE main_thread_run(owner_queue,
                            [func |-> "add_new_member_videos", mid |-> job.mid,
                             new_video_info_list |-> turn.out,
                             last_update |-> job.last_update,
                             requested |-> job.n])
           ELSE /\ futures' = [futures EXCEPT ![j].n = job.n + 1,
                                              ![j].new_videos = turn.out]
                /\ UNCHANGED owner_queue
    /\ last' = Step("do_it", "worker")
    /\ UNCHANGED <<storeVars, remote, update_member_waiting_list, update_all_source_id,
                   updator, uiVars, cleanVars, inserts, executors, table_info, loadVars>>

\* An exception that reaches the generator waiting for the job.
debug_future_exception_reraise(fs, j, gen) ==
    [futures |-> RemoveAt(fs, j), updator |-> IF fs[j].waited THEN "none" ELSE gen]

\* debug_future_exception, the done callback of a future whose job raised:
\* the executor has stored the exception in the future, the callback logs
\* it. The future is done, the other futures and the generator that polls
\* future.done() are as they were. [futures, updator]
debug_future_exception(fs, j, gen) == [futures |-> RemoveAt(fs, j), updator |-> gen]

\* do_it when get_video_page raises (the request fails, the reply is not
\* the JSON expected): no callback is handed to the main loop.
do_it_failing(j) ==
    /\ j \in 1..Len(futures)
    /\ futures[j].kind = "sync"
    /\ LET res == debug_future_exception(futures, j, updator)
       IN  /\ futures' = res.futures
           /\ updator' = res.updator
    /\ last' = [op |-> "do_it_failing", ctx |-> "worker", mid |-> futures[j].mid,
                waited |-> futures[j].waited]
    /\ UNCHANGED <<storeVars, remote, update_member_waiting_list, update_all_source_id,
                   owner_queue, uiVars, cleanVars, inserts, executors, table_info, loadVars>>

\* The main loop runs the callback add_new_member_videos.
run_add_new_member_videos(q) ==
    /\ q \in 1..Len(owner_queue)
    /\ owner_queue[q].func = "add_new_member_videos"
    /\ AddNewMemberVideos(owner_queue[q], "owner")
    /\ owner_queue' = RemoveAt(owner_queue, q)
    /\ UNCHANGED <<members, config, removed_member, remote, syncVars,
                   member_id_at_cursor, misc_jobs, cleanVars, inserts, executors, table_info, loadVars>>

(***************************************************************************)
(* The update-all pass: a generator driven by a one-second timer.          *)
(***************************************************************************)
\* A waiting list made anew from the member list.
MergeWaiting_reset(waiting, mtbl) == mtbl

\* update_member_waiting_list |= {mid: name for the members}: a dict keeps
\* the place of a key it has and appends the new keys in order.
MergeWaiting(waiting, mtbl) ==
    LET New(m) == m \notin Range(waiting) IN waiting \o SelectSeq(mtbl, New)

\* The job the running pass polls with future.done().
Polled == {j \in 1..Len(futures) : futures[j].waited}

\* The previous pass lost its timer: its job is polled by nobody.
Unpolled(fs) == [j \in 1..Len(fs) |-> [fs[j] EXCEPT !.waited = FALSE]]

\* A loop that yields True again when nothing waits.
update_all_loop_endless(waiting, fs) ==
    IF Len(waiting) > 0
    THEN LET res == update_member_videos(Tail(waiting), fs, Head(waiting), TRUE)
         IN  [waiting |-> res.waiting, futures |-> res.futures,
              yielded |-> ~res.raised, raised |-> res.raised]
    ELSE [waiting |-> waiting, futures |-> fs, yielded |-> TRUE, raised |-> FALSE]

\* The while loop of update_all_member_videos from a waiting list, up to
\* its next yield: the first key is popped and update_member_videos is
\* called for it. [waiting, futures, yielded, raised]
update_all_loop(waiting, fs) ==
    IF Len(waiting) > 0
    THEN LET res == update_member_videos(Tail(waiting), fs, Head(waiting), TRUE)
         IN  [waiting |-> res.waiting, futures |-> res.futures,
              yielded |-> ~res.raised, raised |-> res.raised]
    ELSE [waiting |-> waiting, futures |-> fs, yielded |-> FALSE, raised |-> FALSE]

\* GLib.source_remove(tag) raises for a tag below 0: the tag is a guint and
\* PyGObject refuses a negative int (OverflowError) before GLib is called.
source_remove_raises(tag) == tag < 0

\* Controller.on_update_all_member_videos (action update-all-member-videos):
\* the timer of an earlier pass is removed, the first next(updator) runs the
\* new generator to its first yield, a timer is added if it yielded True.
\* A generator that ends in this first step calls GLib.source_remove with
\* update_all_source_id = -1.
on_update_all_member_videos ==
    LET res == update_all_loop(MergeWaiting(update_member_waiting_list, members),
                               Unpolled(futures))
    IN  /\ Len(res.futures) > Len(futures) => InFlight < MaxJobs
        /\ update_member_waiting_list' = res.waiting
        /\ futures' = res.futures
        /\ update_all_source_id' = IF res.yielded THEN 1 ELSE -1
        /\ updator' = IF res.yielded THEN "waiting" ELSE "none"
        /\ last' = [op |-> "on_update_all_member_videos", ctx |-> "owner",
                    raised |-> res.raised \/ (~res.yielded /\ source_remove_raises(-1))]
        /\ UNCHANGED <<storeVars, remote, owner_queue, uiVars, cleanVars, inserts, executors, table_info, loadVars>>

\* next(updator) run by the timer: the generator goes on after its yield.
\* An exception out of the generator ends the timer and leaves
\* update_all_source_id as it is.
update_all_member_videos ==
    /\ updator = "waiting"
    /\ IF Polled # {}
       THEN UNCHANGED <<futures, update_member_waiting_list, update_all_source_id, updator>>
       ELSE LET res == update_all_loop(update_member_waiting_list, futures)
            IN  /\ Len(res.futures) > Len(futures) => InFlight < MaxJobs
                /\ update_member_waiting_list' = res.waiting
                /\ futures' = res.futures
                /\ update_all_source_id' =
                     IF res.yielded \/ res.raised THEN update_all_source_id ELSE -1
                /\ updator' = IF res.yielded THEN "waiting" ELSE "none"
    /\ last' = [op |-> "update_all_member_videos", ctx |-> "owner",
                raised |-> /\ Polled = {}
                           /\ LET res == update_all_loop(update_member_waiting_list, futures)
                              IN  \/ res.raised
                                  \/ ~res.yielded /\ source_remove_raises(update_all_source_id)]
    /\ UNCHANGED <<storeVars, remote, owner_queue, uiVars, cleanVars, inserts, executors, table_info, loadVars>>

(***************************************************************************)
(* The remote side, adding a member, the cursor, removing a member.        *)
(***************************************************************************)
\* A flat listing cut into pages of PageSize items.
Pages(flat) ==
    [p \in 1..((Len(flat) + PageSize - 1) \div PageSize) |->
        SubSeq(flat, (p - 1) * PageSize + 1, Min({p * PageSize, Len(flat)}))]

Item(m, k) == [bvid |-> 10 * m + k, mid |-> m, created |-> k, ver |-> 0]

\* A member of the remote side publishes a video: the listing is ordered by
\* pubdate, newest first. An id with an empty listing is no member there.
Publish(m) ==
    /\ remote[m] # <<>>
    /\ Len(Flatten(remote[m])) < MaxVideos
    /\ remote' = [remote EXCEPT
                    ![m] = Pages(<<Item(m, Len(Flatten(remote[m])) + 1)>>
                                 \o Flatten(remote[m]))]
    /\ last' = Step("Publish", "remote")
    /\ UNCHANGED <<storeVars, syncVars, owner_queue, uiVars, cleanVars, inserts, executors, table_info, loadVars>>

\* Controller.on_add_new_member (action add-new-member) with the text of a
\* member id: a member the store has is refused.
on_add_new_member(mid) ==
    /\ mid > 0
    /\ get_member_info(mid) = None
    /\ InFlight < MaxJobs
    /\ futures' = Append(futures, [kind |-> "fetch", mid |-> mid, last_update |-> None,
                                   n |-> 1, new_videos |-> <<>>, by_all |-> FALSE,
                                   waited |-> FALSE])
    /\ last' = Step("on_add_new_member", "owner")
    /\ UNCHANGED <<storeVars, remote, update_member_waiting_list, update_all_source_id,
                   updator, owner_queue, uiVars, cleanVars, inserts, executors, table_info, loadVars>>

\* Controller.fetch_new_member in the member-loader executor: page_info is a
\* PageInfo of two fields, len(page_info) > 0 holds for every listing.
fetch_new_member(j) ==
    /\ j \in 1..Len(futures)
    /\ futures[j].kind = "fetch"
    /\ futures' = RemoveAt(futures, j)
    /\ owner_queue' = main_thread_run(owner_queue,
                        [func |-> "add_a_member", mid |-> futures[j].mid,
                         video_list |-> get_all_video_pages(futures[j].mid)])
    /\ last' = Step("fetch_new_member", "worker")
    /\ UNCHANGED <<storeVars, remote, update_member_waiting_list, update_all_source_id,
                   updator, uiVars, cleanVars, inserts, executors, table_info, loadVars>>

\* Where the member list gets a row for mid: after the cursor row, at the
\* end without a cursor.
InsertMemberRow(store, cursor, row) ==
    LET at == get_member_row_by_mid(store, cursor)
    IN  IF at = 0 THEN Append(store, row)
        ELSE SubSeq(store, 1, at) \o <<row>> \o SubSeq(store, at + 1, Len(store))

\* fetch_new_member.add_a_member, the callback: video_list[0] raises
\* IndexError for an empty listing, add_member raises for a member the store
\* has; both before anything is written.
add_a_member(cb) ==
    LET res == add_member(members, cb.mid)
        vtbl == add_member_videos(videos, member_video_data_to_db_format(cb.video_list))
    IN  IF cb.video_list = <<>> \/ res.raised
        THEN [members |-> members, videos |-> videos,
              liststore_member |-> liststore_member, raised |-> TRUE]
        ELSE [members |-> res.members, videos |-> vtbl,
              liststore_member |->
                  InsertMemberRow(liststore_member, member_id_at_cursor,
                                  setup_member_row_data(vtbl, cb.mid)),
              raised |-> FALSE]

\* Handler.treeview_member_cursor_changed_cb with the cursor on mid: the
\* display state after it.
treeview_member_cursor_changed_cb(U, mtbl, vtbl, mid) ==
    load_videos_to_listbox(U, vtbl, mid, mid,
                           get_member_videos(mtbl, vtbl, mid, bulk_size, -1), TRUE, FALSE)

\* The user moves the cursor of the member list to the row of mid.
set_cursor(mid) ==
    /\ get_member_row_by_mid(liststore_member, mid) > 0
    /\ mid # member_id_at_cursor
    /\ LET U == treeview_member_cursor_changed_cb(Ui, members, videos, mid)
       IN  RowsFit(U) /\ SetUi(U)
    /\ member_id_at_cursor' = mid
    /\ last' = Step("set_cursor", "owner")
    /\ UNCHANGED <<storeVars, remote, syncVars, owner_queue, liststore_member,
                   misc_jobs, cleanVars, inserts, executors, table_info, loadVars>>

\* next(insertor) run by the timer of load_videos_to_listbox.
insert_generator ==
    /\ load_video_source_id > 0
    /\ insertor.live
    /\ LET res == insert_generator_next(Ui, videos)
       IN  RowsFit(res.ui) /\ SetUi(res.ui)
    /\ last' = Step("insert_generator", "owner")
    /\ UNCHANGED <<storeVars, remote, syncVars, owner_queue, liststore_member,
                   member_id_at_cursor, misc_jobs, cleanVars, inserts, executors, table_info, loadVars>>

\* CacheCleaner.on_member_removed: add_removed_member raises before
\* sweep_member_caches is reached; the signal machinery logs the exception.
on_member_removed(tbl, mid, time_stamp) ==
    LET res == add_removed_member(tbl, mid, time_stamp)
    IN  [removed_member |-> res.removed_member, raised |-> res.raised,
         swept |-> ~res.raised]

\* The member list row next to the row at place at: mrow.next, else
\* mrow.previous, else 0.
NextRow(store, at) == IF at < Len(store) THEN at + 1 ELSE at - 1

\* Controller.on_remove_member (action remove-member), answered YES: the
\* store rows go, the cursor moves to a neighbour row (which loads its
\* videos) or the video list is emptied, the member list row goes,
\* member-removed is emitted.
on_remove_member(mid) ==
    LET minfo == get_member_info(mid)
        vtbl == delete_member_videos(videos, mid)
        mtbl == delete_member(members, mid)
        at == get_member_row_by_mid(liststore_member, mid)
        at_cursor == member_id_at_cursor = mid /\ at > 0
        next_row == IF at_cursor THEN NextRow(liststore_member, at) ELSE 0
        next_mid == IF next_row > 0 THEN liststore_member[next_row].mid ELSE -1
        U == IF ~at_cursor THEN Ui
             ELSE IF next_row > 0
             THEN treeview_member_cursor_changed_cb(Ui, mtbl, vtbl, next_mid)
             ELSE DestroyRows(Ui)
        res == on_member_removed(removed_member, mid, now)
    IN  /\ RowsFit(U)
        /\ videos' = vtbl
        /\ durable' = vtbl
        /\ members' = mtbl
        /\ SetUi(U)
        /\ member_id_at_cursor' = IF at_cursor THEN next_mid ELSE member_id_at_cursor
        /\ liststore_member' = IF at_cursor THEN RemoveAt(liststore_member, at)
                               ELSE liststore_member
        /\ removed_member' = IF minfo = None THEN removed_member ELSE res.removed_member
        /\ last' = [op |-> "on_remove_member", ctx |-> "owner", mid |-> mid,
                    time |-> now, raised |-> minfo = None,
                    swept |-> minfo # None /\ res.swept]
        /\ UNCHANGED <<config, remote, syncVars, owner_queue, misc_jobs, cleanVars,
                       inserts, executors, table_info, loadVars>>

\* Controller.on_remove_selected_member (action remove-selected-member)
on_remove_selected_member ==
    /\ member_id_at_cursor > 0
    /\ on_remove_member(member_id_at_cursor)

\* Controller.on_load_more_videos, again and again after the page prev: the
\* next page is asked for with before = created of the last row shown, until
\* a page is empty. The rows of the pages after prev.
RECURSIVE on_load_more_videos_pages(_, _, _, _, _)
on_load_more_videos_pages(mtbl, vtbl, mid, count, prev) ==
    LET before == prev[Len(prev)].created
        video_list == get_member_videos(mtbl, vtbl, mid, count, before)
    IN  IF Len(video_list) > 0
        THEN video_list \o on_load_more_videos_pages(mtbl, vtbl, mid, count, video_list)
        ELSE <<>>

\* The rows shown for a member: the page of treeview_member_cursor_changed_cb
\* and the pages of on_load_more_videos, count rows a page.
PageBackward(mtbl, vtbl, mid, count) ==
    LET first == get_member_videos(mtbl, vtbl, mid, count, -1)
    IN  IF first = <<>> THEN <<>>
        ELSE first \o on_load_more_videos_pages(mtbl, vtbl, mid, count, first)

(***************************************************************************)
(* Callbacks of the member loader run by the main loop.                    *)
(***************************************************************************)
run_add_a_member(q) ==
    /\ q \in 1..Len(owner_queue)
    /\ owner_queue[q].func = "add_a_member"
    /\ LET res == add_a_member(owner_queue[q])
       IN  /\ members' = res.members
           /\ videos' = res.videos
           /\ durable' = res.videos
           /\ liststore_member' = res.liststore_member
    /\ owner_queue' = RemoveAt(owner_queue, q)
    /\ last' = [op |-> "add_a_member", ctx |-> "owner", mid |-> owner_queue[q].mid,
                empty |-> owner_queue[q].video_list = <<>>,
                raised |-> add_a_member(owner_queue[q]).raised]
    /\ UNCHANGED <<config, removed_member, remote, syncVars, member_id_at_cursor,
                   listVars, misc_jobs, cleanVars, inserts, executors, table_info, loadVars>>

(***************************************************************************)
(* Cover images: VideoRow.load_image in one of the two image executors.    *)
(***************************************************************************)
\* One step of the image job of a row, in the listbox (place i > 0) or out
\* of it: the display state with the row replaced by row2.
PutRow(U, i, row, row2) ==
    IF i > 0 THEN [U EXCEPT !.listbox[i] = row2]
    ELSE [U EXCEPT !.unparented = (@ \ {row}) \cup (IF JobAlive(row2) THEN {row2} ELSE {})]

\* The rows with an image job: <<place in the listbox or 0, row>>.
JobRows == {<<i, listbox[i]>> : i \in 1..Len(listbox)} \cup ({0} \X unparented)

\* A thread of the executor takes the job: it cannot be cancelled any more.
load_image_start(i, row) ==
    /\ <<i, row>> \in JobRows
    /\ row.job = "pending"
    /\ InFlight < MaxJobs
    /\ SetUi(PutRow(Ui, i, row, [row EXCEPT !.job = "running"]))
    /\ last' = Step("load_image", "worker")
    /\ UNCHANGED <<storeVars, remote, syncVars, owner_queue, liststore_member,
                   member_id_at_cursor, misc_jobs, cleanVars, inserts, executors, table_info, loadVars>>

\* VideoRow.load_image: load_image_pixbuf, then
\* main_thread_run(set_image_cover): the callback waits with the row.
load_image(i, row) ==
    /\ <<i, row>> \in JobRows
    /\ row.job = "running"
    /\ SetUi(PutRow(Ui, i, row, [row EXCEPT !.job = "callback"]))
    /\ last' = Step("load_image", "worker")
    /\ UNCHANGED <<storeVars, remote, syncVars, owner_queue, liststore_member,
                   member_id_at_cursor, misc_jobs, cleanVars, inserts, executors, table_info, loadVars>>

\* The main loop runs the callback set_image_cover of a row.
run_set_image_cover(i, row) ==
    /\ <<i, row>> \in JobRows
    /\ row.job = "callback"
    /\ LET after == set_image_cover(row, i > 0)
           U == PutRow(Ui, i, row, after)
       IN  /\ SetUi(U)
           /\ last' = [op |-> "set_image_cover", ctx |-> "owner", parent |-> i > 0,
                       before |-> row, after |-> after, listbox |-> listbox]
    /\ UNCHANGED <<storeVars, remote, syncVars, owner_queue, liststore_member,
                   member_id_at_cursor, misc_jobs, cleanVars, inserts, executors, table_info, loadVars>>

(***************************************************************************)
(* Sub-item lookup: the pages of a video, in the misc executor.            *)
(***************************************************************************)
\* Controller.on_show_video_playlist_pages for a selected VideoRow.
on_show_video_playlist_pages(i) ==
    /\ i \in 1..Len(listbox)
    /\ listbox[i] # LoadMoreVideoRow
    /\ InFlight < MaxJobs
    /\ misc_jobs' = Append(misc_jobs, [bvid |-> listbox[i].bvid])
    /\ last' = Step("on_show_video_playlist_pages", "owner")
    /\ UNCHANGED <<storeVars, remote, syncVars, owner_queue, liststore_member,
                   member_id_at_cursor, listVars, cleanVars, inserts, executors, table_info, loadVars>>

\* on_show_video_playlist_pages.get_page_and_pop: the answer has 'data' or
\* it has not; with 'data' pop_video_pages is handed to the main loop.
get_page_and_pop(j) ==
    /\ j \in 1..Len(misc_jobs)
    /\ misc_jobs' = RemoveAt(misc_jobs, j)
    /\ \E has_data \in BOOLEAN :
          owner_queue' = IF has_data
                         THEN main_thread_run(owner_queue,
                                [func |-> "pop_video_pages", bvid |-> misc_jobs[j].bvid])
                         ELSE owner_queue
    /\ last' = Step("get_page_and_pop", "worker")
    /\ UNCHANGED <<storeVars, remote, syncVars, liststore_member, member_id_at_cursor,
                   listVars, cleanVars, inserts, executors, table_info, loadVars>>

\* DataBase.delete_removed_member
delete_removed_member(tbl, mid) == {row \in tbl : row.mid # mid}

\* The main loop runs a callback that shows a popover (pop_video_pages) or
\* clears a removal record (delete_removed_member).
main_loop_run(q) ==
    /\ q \in 1..Len(owner_queue)
    /\ owner_queue[q].func \in {"pop_video_pages", "delete_removed_member"}
    /\ removed_member' =
         IF owner_queue[q].func = "delete_removed_member"
         THEN delete_removed_member(removed_member, owner_queue[q].mid)
         ELSE removed_member
    /\ owner_queue' = RemoveAt(owner_queue, q)
    /\ last' = Step(owner_queue[q].func, "owner")
    /\ durable' = IF owner_queue[q].func = "delete_removed_member" THEN videos ELSE durable
    /\ UNCHANGED <<members, videos, config, remote, syncVars, uiVars, cleanVars, inserts, executors, table_info, loadVars>>

\* Controller.on_mark_video_visited (action mark-video-visited): nothing for a
\* bvid the store has no video of; else an unvisited row is set visited and
\* the row of the member in the member list gets the new count (member_row is
\* None for a member without a list row: TypeError after the store was
\* written).
on_mark_video_visited(bvid) ==
    LET known == \E r \in videos : r.bvid = bvid
        vinfo == CHOOSE r \in videos : r.bvid = bvid
        vtbl == IF known /\ vinfo.visited = 0 THEN set_video_visited(videos, bvid, 1)
                ELSE videos
        member_row == IF known THEN get_member_row_by_mid(liststore_member, vinfo.mid)
                      ELSE 0
    IN  /\ videos' = vtbl
        /\ durable' = IF known /\ vinfo.visited = 0 THEN vtbl ELSE durable
        /\ liststore_member' =
               IF member_row = 0 THEN liststore_member
               ELSE [liststore_member EXCEPT
                        ![member_row].newitem = get_unvisited_count(vtbl, vinfo.mid)]
        /\ last' = [op |-> "on_mark_video_visited", ctx |-> "owner", bvid |-> bvid,
                    visited |-> IF known THEN vinfo.visited ELSE None,
                    raised |-> known /\ member_row = 0]
        /\ UNCHANGED <<members, config, removed_member, remote, syncVars, owner_queue,
                       member_id_at_cursor, listVars, misc_jobs, cleanVars, inserts,
                       executors, table_info, loadVars>>

(***************************************************************************)
(* Controller.load_members and the save of the member order.               *)
(***************************************************************************)
\* No generator of append_members.
NoAppender == [live |-> FALSE, list |-> <<>>]

\* The mid_list of load_members: the stored order as far as its members are
\* still stored, then the other members.
load_members_mid_list(mtbl, member_order) ==
    LET ordered == IF member_order.t = "list"
                   THEN SelectSeq(member_order.v, LAMBDA mid : mid \in Range(mtbl))
                   ELSE <<>>
    IN  ordered \o SelectSeq(mtbl, LAMBDA mid : mid \notin Range(ordered))

\* One next() of append_members on the mids it has still to append: the rows it
\* appends, what is left, and what it yields.
append_members(list) ==
    LET n == IF Len(list) < AppendStep THEN Len(list) ELSE AppendStep
    IN  [rows |-> SubSeq(list, 1, n), rest |-> SubSeq(list, n + 1, Len(list)),
         yielded |-> n = AppendStep]

\* Handler.do_record_member_order, as liststore_members_row_inserted_cb and
\* liststore_members_row_deleted_cb call it: the timer of the save after it.
do_record_member_order(loading, timer) ==
    IF ~loading /\ timer < 0 THEN 1 ELSE timer

\* Controller.load_members, to the end of its first next(appender).
load_members ==
    LET mid_list == load_members_mid_list(members, get_config("member_order"))
        res == append_members(mid_list)
        changed == Len(liststore_member) + Len(res.rows) > 0
        timer == IF changed THEN do_record_member_order(TRUE, record_order_id)
                 ELSE record_order_id
    IN  /\ last.op = "start"
        /\ liststore_member' = [i \in 1..Len(res.rows) |->
                                   setup_member_row_data(videos, res.rows[i])]
        /\ appender' = IF res.yielded THEN [live |-> TRUE, list |-> res.rest]
                       ELSE NoAppender
        /\ record_order_id' = timer
        /\ loading_member' = FALSE
        /\ last' = [op |-> "load_members", ctx |-> "owner", appended |-> Len(res.rows),
                    loading_member |-> TRUE, scheduled |-> timer # record_order_id]
        /\ UNCHANGED <<storeVars, remote, syncVars, owner_queue, member_id_at_cursor,
                       listVars, misc_jobs, cleanVars, inserts, executors, table_info>>

\* The timer main_thread_run(next, appender) fires: the next rows.
append_members_step ==
    LET res == append_members(appender.list)
        timer == IF Len(res.rows) > 0
                 THEN do_record_member_order(loading_member, record_order_id)
                 ELSE record_order_id
    IN  /\ appender.live
        /\ liststore_member' = liststore_member \o
                               [i \in 1..Len(res.rows) |->
                                   setup_member_row_data(videos, res.rows[i])]
        /\ appender' = IF res.yielded THEN [live |-> TRUE, list |-> res.rest]
                       ELSE NoAppender
        /\ record_order_id' = timer
        /\ last' = [op |-> "append_members", ctx |-> "owner", appended |-> Len(res.rows),
                    loading_member |-> loading_member, scheduled |-> timer # record_order_id]
        /\ UNCHANGED <<storeVars, remote, syncVars, owner_queue, member_id_at_cursor,
                       listVars, misc_jobs, cleanVars, inserts, executors, table_info,
                       loading_member>>

\* Controller.save_member_order: the mids of the rows of the member list.
save_member_order ==
    set_config_of(config, "member_order",
                  PyList([i \in 1..Len(liststore_member) |-> liststore_member[i].mid]))

\* The timer of do_record_member_order fires: its do_it.
do_record_member_order_do_it ==
    /\ record_order_id > 0
    /\ config' = save_member_order.config
    /\ record_order_id' = -1
    /\ last' = [op |-> "save_member_order", ctx |-> "owner", appended |-> 0,
                loading_member |-> loading_member, scheduled |-> FALSE]
    /\ UNCHANGED <<members, videos, durable, removed_member, remote, syncVars, owner_queue,
                   uiVars, cleanVars, inserts, executors, table_info, loading_member,
                   appender>>

(***************************************************************************)
(* main.py: CacheCleaner.                                                  *)
(***************************************************************************)
\* CacheCleaner.max_residue_time
max_residue_time == 7 * 24 * 3600

\* What a call of sweep_orphaned_cache did: the time since the last check
\* when it was called, and whether it went on to the scan of the cache
\* directory (the statements after the throttle).
NoOrphanCheck == [called |-> FALSE, elapsed |-> 0, scan |-> FALSE]

\* The state CacheCleaner works on.
Cl == [timestamp_last_sweep |-> timestamp_last_sweep,
       timestamp_last_orphaned_check |-> timestamp_last_orphaned_check,
       sweep_threads |-> sweep_threads, config |-> config,
       call |-> NoSweep, orphan |-> NoOrphanCheck, raised |-> FALSE]

\* A selection that takes the record of exactly max_residue_time too.
IsStale_inclusive(row, t) == t - row.time_stamp >= max_residue_time

\* The test of sweep_removed_member on a row of removed_member.
IsStale(row, t) == t - row.time_stamp > max_residue_time

\* The mid of the rows of a table, in the order of the rows (by mid here).
RECURSIVE MidList(_)
MidList(tbl) ==
    IF tbl = {} THEN <<>>
    ELSE LET first == CHOOSE row \in tbl : \A other \in tbl : row.mid <= other.mid
         IN  <<first.mid>> \o MidList(tbl \ {first})

\* CacheCleaner.sweep_removed_member at time t: [cleaner state, ret]
sweep_removed_member(C, tbl, t) ==
    LET remove_mid_list == MidList({row \in tbl : IsStale(row, t)})
        ret == Len(remove_mid_list) > 0
        call == [rows |-> tbl, now |-> t, remove_mid_list |-> remove_mid_list,
                 ret |-> ret]
    IN  IF ret
        THEN [C EXCEPT !.sweep_threads = @ \cup {[mid_list |-> remove_mid_list,
                                                  pc |-> "started"]},
                       !.timestamp_last_sweep = t,
                       !.config = set_config_of(@, "timestamp_last_sweep", PyNum(t)).config,
                       !.call = call]
        ELSE [C EXCEPT !.call = call]

\* CacheCleaner.sweep_orphaned_cache at time t: when more than
\* max_residue_time has passed since the last check, the time is recorded
\* and the method returns; otherwise it goes on to the scan, whose first
\* statement, import Pathlib, raises ModuleNotFoundError.
sweep_orphaned_cache(C, t) ==
    LET elapsed == t - C.timestamp_last_orphaned_check
    IN  IF elapsed > max_residue_time
        THEN [C EXCEPT !.timestamp_last_orphaned_check = t,
                       !.config = set_config_of(@, "timestamp_last_orphaned_check",
                                                PyNum(t)).config,
                       !.orphan = [called |-> TRUE, elapsed |-> elapsed, scan |-> FALSE]]
        ELSE [C EXCEPT !.raised = TRUE,
                       !.orphan = [called |-> TRUE, elapsed |-> elapsed, scan |-> TRUE]]

\* CacheCleaner.sweep_member_caches at time t: the time stamps are read back
\* from config once (float(None) raises TypeError), then the removal records
\* are swept, and the orphaned caches if no record was.
sweep_member_caches(C, tbl, t) ==
    LET last_sweep == get_config_of(C.config, "timestamp_last_sweep")
        last_check == get_config_of(C.config, "timestamp_last_orphaned_check")
        restore == C.timestamp_last_sweep = 0 /\ last_sweep # PyNone
        C1 == IF restore THEN [C EXCEPT !.timestamp_last_sweep = float(last_sweep)]
              ELSE C
        C2 == IF restore /\ last_check # PyNone
              THEN [C1 EXCEPT !.timestamp_last_orphaned_check = float(last_check)]
              ELSE C1
        C3 == sweep_removed_member(C2, tbl, t)
    IN  IF restore /\ last_check = PyNone THEN [C1 EXCEPT !.raised = TRUE]
        ELSE IF C3.call.ret THEN C3
        ELSE sweep_orphaned_cache(C3, t)

SetCl(C) ==
    /\ timestamp_last_sweep' = C.timestamp_last_sweep
    /\ timestamp_last_orphaned_check' = C.timestamp_last_orphaned_check
    /\ sweep_threads' = C.sweep_threads
    /\ config' = C.config

\* A call of sweep_member_caches on the owner while the ids in dirs have a
\* directory mid-<id> under CACHE_DIR.
sweep_member_caches_on(dirs) ==
    /\ sweep_member_caches(Cl, removed_member, now).sweep_threads # sweep_threads
          => InFlight < MaxJobs
    /\ SetCl(sweep_member_caches(Cl, removed_member, now))
    /\ last' = [op |-> "sweep_member_caches", ctx |-> "owner",
                call |-> sweep_member_caches(Cl, removed_member, now).call,
                orphan |-> sweep_member_caches(Cl, removed_member, now).orphan,
                raised |-> sweep_member_caches(Cl, removed_member, now).raised,
                dirs |-> dirs]
    /\ durable' = IF sweep_member_caches(Cl, removed_member, now).config # config
                  THEN videos ELSE durable
    /\ UNCHANGED <<members, videos, removed_member, remote, syncVars, owner_queue,
                   uiVars, now, inserts, executors, table_info, loadVars>>

\* A call of sweep_member_caches on the owner.
sweep_member_caches_call == sweep_member_caches_on({})

\* CacheCleaner.do_sweep_mid_list in its thread: the loop is over
\* self.mid_list, an attribute CacheCleaner has not; AttributeError ends the
\* thread before a directory is looked at or a callback handed over.
do_sweep_mid_list(t) ==
    /\ t \in sweep_threads
    /\ t.pc = "started"
    /\ sweep_threads' = (sweep_threads \ {t}) \cup {[t EXCEPT !.pc = "raised"]}
    /\ last' = Step("do_sweep_mid_list", "worker")
    /\ UNCHANGED <<storeVars, remote, syncVars, owner_queue, uiVars,
                   timestamp_last_sweep, timestamp_last_orphaned_check, now, inserts, executors, table_info, loadVars>>

\* time.time() goes on.
Tick ==
    /\ now < max_residue_time + MaxStamp + MaxTick
    /\ now' = now + 1
    /\ last' = Step("Tick", "clock")
    /\ UNCHANGED <<storeVars, remote, syncVars, owner_queue, uiVars,
                   timestamp_last_sweep, timestamp_last_orphaned_check, sweep_threads,
                   inserts, executors, table_info, loadVars>>

(***************************************************************************)
(* main.py: the ThreadPoolExecutors of Controller and do_quit.             *)
(***************************************************************************)
\* executor_image_loader, executor_image_network_loader,
\* executor_member_loader, executor_misc_loader
Pools == {"image_loader", "image_network_loader", "member_loader", "misc_loader"}

\* An executor with no job, open for submit.
NoJobs == [pending |-> 0, running |-> 0, shutdown |-> FALSE]

\* Executor.shutdown(cancel_futures=True), wait=True: submit raises from now
\* on, the pending futures are cancelled, and the call returns when the
\* running jobs are over.
shutdown(executor) == [pending |-> 0, running |-> 0, shutdown |-> TRUE]

\* do_quit has run: Application.on_quit goes on to quit().
Quit == \E p \in Pools : executors[p].shutdown

\* Executor.submit: a future waits for a thread (RuntimeError after shutdown).
submit(p) ==
    /\ ~Quit
    /\ ~executors[p].shutdown
    /\ executors[p].pending + executors[p].running < MaxPoolJobs
    /\ executors' = [executors EXCEPT ![p].pending = @ + 1]
    /\ last' = [op |-> "submit", ctx |-> "owner", pool |-> p]
    /\ UNCHANGED <<storeVars, remote, syncVars, owner_queue, uiVars, cleanVars, inserts, table_info, loadVars>>

\* A thread of the executor takes a pending job.
start_job(p) ==
    /\ executors[p].pending > 0
    /\ executors' = [executors EXCEPT ![p].pending = @ - 1, ![p].running = @ + 1]
    /\ last' = [op |-> "start_job", ctx |-> "worker", pool |-> p]
    /\ UNCHANGED <<storeVars, remote, syncVars, owner_queue, uiVars, cleanVars, inserts, table_info, loadVars>>

\* A running job is over.
end_job(p) ==
    /\ executors[p].running > 0
    /\ executors' = [executors EXCEPT ![p].running = @ - 1]
    /\ last' = [op |-> "end_job", ctx |-> "worker", pool |-> p]
    /\ UNCHANGED <<storeVars, remote, syncVars, owner_queue, uiVars, cleanVars, inserts, table_info, loadVars>>

\* Controller.do_quit: three of the four executors are shut down.
do_quit ==
    /\ ~Quit
    /\ executors' = [executors EXCEPT
                        !["image_loader"] = shutdown(@),
                        !["member_loader"] = shutdown(@),
                        !["misc_loader"] = shutdown(@)]
    /\ last' = [op |-> "do_quit", ctx |-> "owner", pool |-> "all"]
    /\ UNCHANGED <<storeVars, remote, syncVars, owner_queue, uiVars, cleanVars, inserts, table_info, loadVars>>

QuitNext ==
    \/ \E p \in Pools : submit(p)
    \/ \E p \in Pools : start_job(p)
    \/ \E p \in Pools : end_job(p)
    \/ do_quit

(***************************************************************************)
(* The program after start: nothing in flight, nothing displayed.          *)
(***************************************************************************)
Idle ==
    /\ owner_queue = <<>>
    /\ update_member_waiting_list = <<>>
    /\ update_all_source_id = -1
    /\ updator = "none"
    /\ listbox = <<>> /\ unparented = {}
    /\ load_video_source_id = -1
    /\ insertor = NoInsertor
    /\ misc_jobs = <<>>
    /\ timestamp_last_sweep = 0
    /\ timestamp_last_orphaned_check = 0
    /\ sweep_threads = {}
    /\ inserts = <<>>
    /\ executors = [p \in Pools |-> NoJobs]
    /\ table_info = setup_tables(NoTables)
    /\ loading_member = FALSE
    /\ record_order_id = -1
    /\ appender = NoAppender
    /\ last = Step("start", "owner")

\* A store with the members 1..MaxMid, each with its first video, as the
\* remote side lists them, and the member list load_members makes of it.
StartVideos == {[bvid |-> Item(m, 1).bvid, mid |-> m, created |-> 1, ver |-> 0,
                 visited |-> 0] : m \in Mids}

Init ==
    /\ Idle
    /\ members = [i \in 1..MaxMid |-> i]
    /\ videos = StartVideos
    /\ durable = videos
    /\ config = {}
    /\ removed_member = {}
    /\ remote = [m \in Mids |-> Pages(<<Item(m, 1)>>)]
    /\ futures = <<>>
    /\ liststore_member = [i \in 1..MaxMid |-> setup_member_row_data(StartVideos, i)]
    /\ member_id_at_cursor = -1
    /\ now = max_residue_time + 1

\* Synchronisation of the members the store has, the cursor, removal.
Sync ==
    \/ \E m \in Mids : Publish(m)
    \/ \E mid \in Mids : on_update_member_videos(mid)
    \/ \E j \in DOMAIN futures : do_it(j)
    \/ \E q \in DOMAIN owner_queue : run_add_new_member_videos(q)

\* The refresh of all members, one member at a time.
RefreshAll ==
    \/ on_update_all_member_videos
    \/ update_all_member_videos

\* The member list and the video list.
Browse ==
    \/ \E mid \in Mids : set_cursor(mid)
    \/ insert_generator
    \/ on_remove_selected_member

\* Adding a member.
Bootstrap ==
    \/ \E mid \in Mids : on_add_new_member(mid)
    \/ \E j \in DOMAIN futures : fetch_new_member(j)
    \/ \E q \in DOMAIN owner_queue : run_add_a_member(q)

\* The cover-image jobs of the rows.
Images ==
    \/ \E job \in JobRows : load_image_start(job[1], job[2])
    \/ \E job \in JobRows : load_image(job[1], job[2])
    \/ \E job \in JobRows : run_set_image_cover(job[1], job[2])

\* The lookup of the pages of a video.
Lookup ==
    \/ \E i \in DOMAIN listbox : on_show_video_playlist_pages(i)
    \/ \E j \in DOMAIN misc_jobs : get_page_and_pop(j)
    \/ \E q \in DOMAIN owner_queue : main_loop_run(q)

\* The cache cleaner.
Sweep ==
    \/ sweep_member_caches_call
    \/ \E t \in sweep_threads : do_sweep_mid_list(t)

Next == Sync \/ RefreshAll \/ Browse

Spec == Init /\ [][Next]_vars

(***************************************************************************)
(* The video list and its cover images over a store that stays as it is.   *)
(***************************************************************************)
ImageNext ==
    \/ \E mid \in Mids : set_cursor(mid)
    \/ insert_generator
    \/ Images

SpecImage == Init /\ [][ImageNext]_vars

(***************************************************************************)
(* Every owner step and every worker of the program, for one member: the   *)
(* store has member 1, the remote side lists nothing for the other ids,    *)
(* and a removal record older than max_residue_time is left in the store.  *)
(***************************************************************************)
AllInit ==
    /\ Idle
    /\ members = <<1>>
    /\ videos = {v \in StartVideos : v.mid = 1}
    /\ durable = videos
    /\ config = {}
    /\ removed_member = {[mid |-> MaxMid, time_stamp |-> 0]}
    /\ remote = [m \in Mids |-> IF m = 1 THEN Pages(<<Item(m, 1)>>) ELSE <<>>]
    /\ futures = <<>>
    /\ liststore_member = <<setup_member_row_data(StartVideos, 1)>>
    /\ member_id_at_cursor = -1
    /\ now = max_residue_time + 1

AllNext ==
    \/ Sync
    \/ Browse
    \/ Bootstrap
    \/ Images
    \/ Lookup
    \/ Sweep

SpecAll == AllInit /\ [][AllNext]_vars

(***************************************************************************)
(* get_new_videos alone: any pages, any watermark.                         *)
(***************************************************************************)
\* Pages of created values turned into items; the bvid is the item's place.
FetchItems(cpages) ==
    [p \in 1..Len(cpages) |->
        [i \in 1..Len(cpages[p]) |->
            [bvid |-> 10 * p + i, mid |-> 1, created |-> cpages[p][i], ver |-> 0]]]

FetchInit ==
    /\ Idle
    /\ members = <<>> /\ videos = {} /\ durable = {} /\ config = {}
    /\ removed_member = {}
    /\ \E cpages \in SeqsUpTo(SeqsUpTo(0..FetchMaxCreated, FetchPageLen), FetchMaxPages) :
          remote = [m \in Mids |-> IF m = 1 THEN FetchItems(cpages) ELSE <<>>]
    /\ \E w \in 0..FetchMaxCreated : futures = <<SyncJob(1, w, FALSE)>>
    /\ liststore_member = <<>>
    /\ member_id_at_cursor = -1
    /\ now = 0

FetchNext == \E j \in DOMAIN futures : do_it(j)

SpecFetch == FetchInit /\ [][FetchNext]_vars

\* What the claim promises, computed from the pages without the loop.
FirstEmptyPage(pages) ==
    CHOOSE n \in 1..(Len(pages) + 1) :
        /\ (n = Len(pages) + 1 \/ pages[n] = <<>>)
        /\ \A k \in 1..(n - 1) : pages[k] # <<>>

PageOfItem(pages, i) ==
    CHOOSE p \in 1..Len(pages) :
        /\ Len(Flatten(SubSeq(pages, 1, p - 1))) < i
        /\ i <= Len(Flatten(SubSeq(pages, 1, p)))

NewPrefixLen(flat, w) ==
    CHOOSE k \in 0..Len(flat) :
        /\ \A i \in 1..k : flat[i].created > w
        /\ (k = Len(flat) \/ flat[k + 1].created <= w)
        /\ \A k2 \in 0..(k - 1) : k2 < Len(flat) => flat[k2 + 1].created > w

\* The callbacks get_new_videos jobs have handed over.
Fetched == {owner_queue[q] : q \in 1..Len(owner_queue)}

\* C1: get_new_videos returns exactly the longest prefix, in page order and
\* in-page order, of the items before the first empty page in which every
\* item has created > watermark, and it requests pages 1..stop and no page
\* after the page on which it stopped.
C1_EarlyStopFetch ==
    /\ \A cb \in Fetched :
          LET pages == remote[cb.mid]
              fe == FirstEmptyPage(pages)
              flat == Flatten(SubSeq(pages, 1, fe - 1))
              k == NewPrefixLen(flat, cb.last_update)
              stop == IF k = Len(flat) THEN fe ELSE PageOfItem(pages, k + 1)
          IN  /\ cb.new_video_info_list = SubSeq(flat, 1, k)
              /\ cb.requested = stop
    /\ \A j \in 1..Len(futures) :
          LET pages == remote[futures[j].mid]
              flat == Flatten(SubSeq(pages, 1, futures[j].n - 1))
          IN  /\ futures[j].new_videos = flat
              /\ \A i \in 1..Len(flat) : flat[i].created > futures[j].last_update
              /\ \A p \in 1..(futures[j].n - 1) : pages[p] # <<>>
    /\ futures = <<>> => owner_queue # <<>>

\* The fetch stopped on an old item of the second page, keeping items of
\* both pages.
C1_Witness ==
    \E cb \in Fetched :
        /\ cb.requested = 2
        /\ Len(cb.new_video_info_list) > Len(remote[1][1])
        /\ Len(cb.new_video_info_list) < Len(Flatten(remote[1]))


(***************************************************************************)
(* add_member_videos alone: any batches.                                   *)
(***************************************************************************)
StoreRows ==
    [bvid : 1..StoreMaxBvid, mid : {1}, created : {1}, ver : 0..1, visited : 0..1]

UpsertInit ==
    /\ Idle
    /\ members = <<>> /\ videos = {} /\ durable = {} /\ config = {}
    /\ removed_member = {}
    /\ remote = [m \in Mids |-> <<>>]
    /\ futures = <<>>
    /\ liststore_member = <<>>
    /\ member_id_at_cursor = -1
    /\ now = 0

AddMemberVideos ==
    \E video_list \in SeqsUpTo(StoreRows, StoreMaxBatch) :
        /\ Len(inserts) + Len(video_list) <= StoreMaxInserts
        /\ videos' = add_member_videos(videos, video_list)
        /\ durable' = videos'
        /\ inserts' = inserts \o video_list
        /\ last' = Step("add_member_videos", "owner")
        /\ UNCHANGED <<members, config, removed_member, remote, syncVars, owner_queue,
                       uiVars, cleanVars, executors, table_info, loadVars>>

SpecUpsert == UpsertInit /\ [][AddMemberVideos]_vars

LastInsertOf(bvid) ==
    LET at == {i \in 1..Len(inserts) : inserts[i].bvid = bvid}
    IN  inserts[Max(at)]

\* C3: after any sequence of add_member_videos calls the videos table holds
\* at most one row per bvid, and that row has the field values of the most
\* recent insert with that bvid.
C3_OneRowPerBvid ==
    \A bvid \in 1..StoreMaxBvid :
        LET stored == {r \in videos : r.bvid = bvid}
        IN  IF \E i \in 1..Len(inserts) : inserts[i].bvid = bvid
            THEN stored = {LastInsertOf(bvid)}
            ELSE stored = {}

\* The same bvid was inserted twice with different field values.
C3_Witness ==
    \E i, k \in 1..Len(inserts) :
        /\ i < k
        /\ inserts[i].bvid = inserts[k].bvid
        /\ inserts[i] # inserts[k]
        /\ inserts[k] \in videos

(***************************************************************************)
(* set_config alone: plain and structured keys.                            *)
(***************************************************************************)
ConfigCalls ==
    ({"member_order"} \X {PyList(l) : l \in OrderLists})
        \cup ({"player_bin"} \X {PyStr("mpv"), PyStr("7"), PyNum(7)})

SetConfig ==
    \E call \in ConfigCalls :
        LET res == set_config_of(config, call[1], call[2])
        IN  /\ config' = res.config
            /\ last' = [op |-> "set_config", ctx |-> "owner", key |-> call[1],
                        value |-> call[2], before |-> config, wrote |-> res.wrote]
            /\ durable' = IF res.wrote THEN videos ELSE durable
            /\ UNCHANGED <<members, videos, removed_member, remote, syncVars,
                           owner_queue, uiVars, cleanVars, inserts, executors, table_info, loadVars>>

SpecConfig == UpsertInit /\ [][SetConfig]_vars

\* The stored value of key equals value: the decoded list for a structured
\* key, the text of the value for a plain key.
StoredEquals(tbl, key, value) ==
    \E row \in tbl :
        /\ row.key = key
        /\ IF key \in StructuredKeys
           THEN value.t = "list" /\ json_loads(row.value) = value.v
           ELSE row.value = str(value).v

\* C7: set_config(key, v) with the stored value already equal to v performs
\* no write and leaves the config table unchanged, for every key.
C7_NoOpWrite ==
    (last.op = "set_config" /\ StoredEquals(last.before, last.key, last.value))
        => (~last.wrote /\ config = last.before)

\* C7 for the plain keys only, which the code does skip.
C7_PlainKeyNoOpWrite ==
    (/\ last.op = "set_config"
     /\ last.key \notin StructuredKeys
     /\ StoredEquals(last.before, last.key, last.value))
        => (~last.wrote /\ config = last.before)

\* The keys of the calls and a key no call sets.
ConfigKeys == {call[1] : call \in ConfigCalls} \cup {"db_version"}

\* C24: get_config of a key that was never set is None, and after
\* set_config(key, v) get_config(key) is str(v) for a plain key and the
\* list v for the key kept as JSON.
C24_ConfigRoundTrip ==
    /\ \A key \in ConfigKeys :
           (\A row \in config : row.key # key) => get_config(key) = PyNone
    /\ last.op = "set_config" =>
           get_config(last.key) = IF last.key \in StructuredKeys
                                  THEN PyList(last.value.v) ELSE str(last.value)

\* A list of two member ids has just been written, and a plain key is
\* still unset.
C24_Witness ==
    /\ last.op = "set_config" /\ last.wrote
    /\ last.key = "member_order" /\ Len(last.value.v) = 2
    /\ \A row \in config : row.key # "player_bin"

(***************************************************************************)
(* CacheCleaner over the removal records a store can hold: a record for    *)
(* any of the ids (mid is UNIQUE), removed at 0..MaxStamp, and a clock     *)
(* that starts max_residue_time after 0, so that a record is younger than, *)
(* exactly as old as, or older than max_residue_time when it is swept.     *)
(***************************************************************************)
RemovedTables ==
    {tbl \in SUBSET [mid : Mids, time_stamp : 0..MaxStamp] :
        \A a, b \in tbl : a.mid = b.mid => a = b}

\* The config of a store whose cleaner has swept before, or has not.
CleanerConfigs ==
    {{}, set_config_of(set_config_of({}, "timestamp_last_sweep", PyNum(1)).config,
                       "timestamp_last_orphaned_check", PyNum(1)).config}

CleanerInit ==
    /\ Idle
    /\ members = <<>>
    /\ videos = {} /\ durable = {}
    /\ config \in CleanerConfigs
    /\ removed_member \in RemovedTables
    /\ remote = [m \in Mids |-> <<>>]
    /\ futures = <<>>
    /\ liststore_member = <<>>
    /\ member_id_at_cursor = -1
    /\ now = max_residue_time

CleanerNext ==
    \/ sweep_member_caches_call
    \/ \E t \in sweep_threads : do_sweep_mid_list(t)
    \/ Tick

SpecCleaner == CleanerInit /\ [][CleanerNext]_vars

\* The last step of the program called sweep_removed_member.
SweepCalled == last.op = "sweep_member_caches" /\ last.call # NoSweep

\* The mids of the records of the call that are older than 7 days.
OlderThanAWeek(call) ==
    {row.mid : row \in {r \in call.rows : call.now - r.time_stamp > 7 * 24 * 3600}}

\* C8: sweep_removed_member selects exactly the removal records with
\* now - time_stamp > 7 days, each once and no other, and returns True if
\* and only if it selected at least one.
C8_SweepSelection ==
    SweepCalled =>
        /\ Range(last.call.remove_mid_list) = OlderThanAWeek(last.call)
        /\ Len(last.call.remove_mid_list) = Cardinality(OlderThanAWeek(last.call))
        /\ last.call.ret = (OlderThanAWeek(last.call) # {})

\* A sweep that met a record exactly 7 days old, which it left, and a record
\* older than that, which it selected.
C8_Witness ==
    /\ SweepCalled
    /\ \E r \in last.call.rows :
          /\ last.call.now - r.time_stamp = 7 * 24 * 3600
          /\ r.mid \notin Range(last.call.remove_mid_list)
    /\ \E r \in last.call.rows :
          /\ last.call.now - r.time_stamp = 7 * 24 * 3600 + 1
          /\ r.mid \in Range(last.call.remove_mid_list)
    /\ last.call.ret

\* C10: when the thread of a sweep is over, every record the sweep selected
\* is deleted from removed_member or its deletion waits on the owner, handed
\* over by the thread after it looked at the member's cache directory.
C10_SelectedRecordsCleared ==
    \A t \in sweep_threads :
        t.pc # "started" =>
            \A i \in 1..Len(t.mid_list) :
                \/ ~\E row \in removed_member : row.mid = t.mid_list[i]
                \/ \E q \in 1..Len(owner_queue) :
                      /\ owner_queue[q].func = "delete_removed_member"
                      /\ owner_queue[q].mid = t.mid_list[i]

\* The last step of the program called sweep_orphaned_cache.
OrphanCheckCalled == last.op = "sweep_member_caches" /\ last.orphan.called

\* C11: sweep_orphaned_cache goes on to the scan of the cache directory only
\* when more than 7 days have passed since the last orphan check, and does
\* no scan otherwise.
C11_OrphanScanThrottled ==
    OrphanCheckCalled => (last.orphan.scan => last.orphan.elapsed > 7 * 24 * 3600)

(***************************************************************************)
(* Properties of the refresh of a member and of all members, and of the    *)
(* removal of a member, under Spec.                                        *)
(***************************************************************************)
\* The video rows of member mid in the store with created above the mark.
NewerInStore(mid, mark) == {v \in videos : v.mid = mid /\ v.created > mark}

\* A sequence of video rows in the order of created, the latest first.
CreatedDescending(list) ==
    \A i, k \in 1..Len(list) : i < k => list[i].created >= list[k].created

\* C2: add_new_member_videos, run for the refresh of a member, reports
\* exactly the video rows of that member that are in the store after the
\* upsert with created above the watermark read when the refresh was asked
\* for, each once, the latest first; it reports nothing when the fetch
\* returned no item.
C2_ReportsNewerVideos ==
    last.op = "add_new_member_videos" =>
        IF last.new_video_info_list = <<>>
        THEN last.video_list = <<>>
        ELSE /\ Range(last.video_list) = NewerInStore(last.mid, last.last_update)
             /\ Len(last.video_list) = Cardinality(Range(last.video_list))
             /\ CreatedDescending(last.video_list)

\* The member-sync jobs update_all_member_videos submitted that are not done.
RefreshAllJobs == {j \in 1..Len(futures) : futures[j].kind = "sync" /\ futures[j].by_all}

\* C4: at every moment at most one member-sync job that
\* update_all_member_videos submitted is submitted and not finished, also
\* when update-all is triggered while an earlier pass is running.
C4_OneRefreshAllJob == Cardinality(RefreshAllJobs) <= 1

\* C9: after on_remove_member for member m the store has no members row of
\* m, no videos row of m, and a removed_member row of m with the time of
\* the removal, and the sweep of the removal records was started in the
\* same step.
C9_RemovalRecorded ==
    last.op = "on_remove_member" =>
        /\ last.mid \notin Range(members)
        /\ ~\E v \in videos : v.mid = last.mid
        /\ \E row \in removed_member : row.mid = last.mid /\ row.time_stamp = last.time
        /\ last.swept

(***************************************************************************)
(* Owner and workers, under SpecAll.                                       *)
(***************************************************************************)
\* What the video list shows: its rows and the cover each has.
Displayed == [i \in 1..Len(listbox) |-> [bvid |-> listbox[i].bvid,
                                         image |-> listbox[i].image]]

\* C5: a step that writes to the store (members, videos, config,
\* removed_member) or changes the member list or the video list shown runs
\* on the owner; a worker job only hands a callback to main_thread_run.
C5_WritesOnOwner ==
    [][(\/ storeVars' # storeVars
        \/ liststore_member' # liststore_member
        \/ Displayed' # Displayed) => last'.ctx = "owner"]_vars

\* A member-sync job has ended in its worker thread and its callback, with
\* the new videos it fetched, waits for the main loop.
C5_Witness ==
    /\ last.op = "do_it" /\ last.ctx = "worker"
    /\ \E q \in 1..Len(owner_queue) :
          /\ owner_queue[q].func = "add_new_member_videos"
          /\ owner_queue[q].new_video_info_list # <<>>

(***************************************************************************)
(* The cover-image callback, under SpecImage.                              *)
(***************************************************************************)
\* C6: set_image_cover of a row that is in the video list no more (its job
\* ran on after the pending jobs were cancelled) changes nothing of the row
\* and nothing of the video list.
C6_DetachedRowUntouched ==
    (last.op = "set_image_cover" /\ ~last.parent) =>
        /\ last.after.image = last.before.image
        /\ listbox = last.listbox

\* The callback ran for a row whose job survived a cancel and which had left
\* the video list by then.
C6_Witness ==
    /\ last.op = "set_image_cover"
    /\ ~last.parent
    /\ last.before.survived
    /\ last.before \notin Range(last.listbox)

(***************************************************************************)
(* One sync job per member, under Spec.                                    *)
(***************************************************************************)
\* The sync jobs of member mid that are submitted and not finished.
SyncJobsOf(mid) == {j \in 1..Len(futures) : futures[j].kind = "sync" /\ futures[j].mid = mid}

\* C14: for every member at most one sync job of it is in flight in the
\* member loader at any moment, whatever update-member and update-all
\* requests arrive.
C14_OneSyncJobPerMember == \A mid \in Mids : Cardinality(SyncJobsOf(mid)) <= 1

(***************************************************************************)
(* add_member_videos with batches sqlite3 may fail on part-way, and        *)
(* set_config as the later write on the same connection.                   *)
(***************************************************************************)
\* The rows member_video_data_to_db_format makes: visited is 0.
BatchRows == {r \in StoreRows : r.visited = 0}

\* A call of add_member_videos: bad = 0 when every row binds, else the
\* number of the first row that does not.
AddMemberVideosBatch ==
    \E video_list \in SeqsUpTo(BatchRows, StoreMaxBatch) \ {<<>>} :
        \E bad \in 0..Len(video_list) :
            /\ IF bad = 0
               THEN /\ videos' = add_member_videos(videos, video_list)
                    /\ durable' = videos'
               ELSE /\ videos' = add_member_videos_failing(videos, video_list, bad)
                    /\ UNCHANGED durable
            /\ last' = [op |-> "add_member_videos", ctx |-> "owner", raised |-> bad # 0,
                        before |-> videos]
            /\ UNCHANGED <<members, config, removed_member, remote, syncVars,
                           owner_queue, uiVars, cleanVars, inserts, executors, table_info, loadVars>>

BatchNext == AddMemberVideosBatch \/ SetConfig

SpecBatch == UpsertInit /\ [][BatchNext]_vars

\* C12: when add_member_videos fails part-way through a batch the videos
\* table is afterwards as it was before the call, and a later write of
\* another table on the same connection makes no videos row durable.
C12_FailedBatchLeavesNothing ==
    /\ []((last.op = "add_member_videos" /\ last.raised) => videos = last.before)
    /\ [][last'.op = "set_config" => durable' = durable]_vars


(***************************************************************************)
(* do_quit on executors with any jobs pending and running.                 *)
(***************************************************************************)
SpecQuit == UpsertInit /\ [][QuitNext]_vars

\* C13: after do_quit each of the four executors rejects new submissions
\* and has no pending job left (the running jobs may go on).
C13_QuitShutsEveryPool ==
    Quit => \A p \in Pools : executors[p].shutdown /\ executors[p].pending = 0


(***************************************************************************)
(* The update-all pass over three members, with requests for single        *)
(* members and with jobs that fail.                                        *)
(***************************************************************************)
RefreshMids == 1..(MaxMid + 1)

\* The store holds the first video of every member; the remote side lists
\* it, and for some members a newer one.
RefreshStart(fresh) ==
    /\ Idle
    /\ members = [i \in RefreshMids |-> i]
    /\ videos = {[bvid |-> Item(m, 1).bvid, mid |-> m, created |-> 1, ver |-> 0,
                  visited |-> 0] : m \in RefreshMids}
    /\ durable = videos
    /\ config = {}
    /\ removed_member = {}
    /\ remote = [m \in RefreshMids |->
                    IF m \in fresh THEN Pages(<<Item(m, 2), Item(m, 1)>>)
                    ELSE Pages(<<Item(m, 1)>>)]
    /\ futures = <<>>
    /\ liststore_member = [i \in RefreshMids |-> setup_member_row_data(videos, i)]
    /\ member_id_at_cursor = -1
    /\ now = max_residue_time + 1

RefreshInit == \E fresh \in SUBSET RefreshMids : RefreshStart(fresh)

RefreshNext ==
    \/ \E mid \in RefreshMids : on_update_member_videos(mid)
    \/ \E j \in DOMAIN futures : do_it(j)
    \/ \E j \in DOMAIN futures : do_it_failing(j)
    \/ \E q \in DOMAIN owner_queue : run_add_new_member_videos(q)
    \/ on_update_all_member_videos
    \/ update_all_member_videos

SpecRefresh == RefreshInit /\ [][RefreshNext]_vars

\* The pass alone, member 1 having a new video: update-all requests, the timer, the jobs and their
\* callbacks, jobs that fail.
PassNext ==
    \/ on_update_all_member_videos
    \/ update_all_member_videos
    \/ \E j \in DOMAIN futures : do_it(j)
    \/ \E j \in DOMAIN futures : do_it_failing(j)
    \/ \E q \in DOMAIN owner_queue : run_add_new_member_videos(q)

\* The timer of the pass fires every second; every job has a thread of the
\* member loader, so the job the pass polls and the other jobs go on; the
\* main loop runs the callbacks handed to it.
SpecPass ==
    /\ RefreshStart({1})
    /\ [][PassNext]_vars
    /\ SF_vars(update_all_member_videos)
    /\ WF_vars(\E j \in Polled : do_it(j) \/ do_it_failing(j))
    /\ WF_vars(\E j \in DOMAIN futures : do_it(j) \/ do_it_failing(j))
    /\ WF_vars(\E q \in DOMAIN owner_queue : run_add_new_member_videos(q))

Waiting == Range(update_member_waiting_list)

\* A job has just failed in its worker while a pass is running.
JobFailed == last.op = "do_it_failing" /\ updator = "waiting"

\* The step of a job that fails touches nothing but its own future.
FailureCaptured ==
    last'.op = "do_it_failing" =>
        /\ \E j \in DOMAIN futures : futures' = RemoveAt(futures, j)
        /\ owner_queue' = owner_queue
        /\ updator' = updator
        /\ update_all_source_id' = update_all_source_id
        /\ update_member_waiting_list' = update_member_waiting_list
        /\ videos' = videos

\* A member leaves the waiting list only with a sync job submitted for it.
LeavesBySubmission ==
    \A m \in Waiting \ Range(update_member_waiting_list') :
        /\ Len(futures') = Len(futures) + 1
        /\ futures'[Len(futures')].mid = m

\* C15: a sync job that fails in the worker changes nothing but its own
\* future (no callback, the other jobs, the generator and its timer as they
\* were), and every member that waits when a job has failed during a pass
\* leaves the waiting list later, which it does only by being submitted.
C15_FailureDoesNotStopPass ==
    /\ [][FailureCaptured]_vars
    /\ [][LeavesBySubmission]_vars
    /\ \A m \in RefreshMids : (JobFailed /\ m \in Waiting) ~> (m \notin Waiting)

\* The job of member 1 failed (its new video is listed by the remote side
\* and is neither stored nor on its way), and the pass polls the job of
\* member 2.
C15_Witness ==
    /\ last.op = "update_all_member_videos"
    /\ updator = "waiting"
    /\ owner_queue = <<>>
    /\ \E j \in DOMAIN futures : futures[j].waited /\ futures[j].mid = 2
    /\ \A j \in DOMAIN futures : futures[j].mid # 1
    /\ Len(Flatten(remote[1])) = 2
    /\ \A r \in videos : r.bvid # Item(1, 2).bvid

(***************************************************************************)
(* The waiting list emptied under a running pass, under SpecRefresh.       *)
(***************************************************************************)
\* A future leaves the member loader only when its own job ends.
NotCancelled ==
    Len(futures') < Len(futures) =>
        /\ last'.op \in {"do_it", "do_it_failing"}
        /\ \E j \in DOMAIN futures : futures' = RemoveAt(futures, j)

\* A job that ends without failing hands its result to the main loop, and
\* the result leaves the queue only by add_new_member_videos on the owner,
\* which puts it into the store.
ResultApplied ==
    /\ (last'.op = "do_it" /\ Len(futures') < Len(futures)) =>
           Len(owner_queue') = Len(owner_queue) + 1
    /\ Len(owner_queue') < Len(owner_queue) =>
           /\ last'.op = "add_new_member_videos" /\ last'.ctx = "owner"
           /\ videos' = add_member_videos(videos,
                  member_video_data_to_db_format(last'.new_video_info_list))

\* The timer step of a pass whose waiting list is empty submits nothing;
\* it ends the pass once the job it polls is done.
PassEnds ==
    (updator = "waiting" /\ update_member_waiting_list = <<>>
        /\ last'.op = "update_all_member_videos") =>
        /\ futures' = futures
        /\ update_member_waiting_list' = <<>>
        /\ IF Polled = {} THEN update_all_source_id' = -1 /\ updator' = "none"
           ELSE update_all_source_id' = update_all_source_id /\ updator' = "waiting"

\* C16: when the waiting list is emptied while the pass has a sync job in
\* flight, the job is not cancelled (a future leaves only when its job
\* ends), its result is applied to the store by the owner, and the pass
\* submits no further member and ends with update_all_source_id = -1.
C16_ClearedListEndsPass ==
    /\ [][NotCancelled]_vars
    /\ [][ResultApplied]_vars
    /\ [][PassEnds]_vars

\* A request for a single member has just taken the last waiting member
\* while the job the pass polls is in flight.
C16_Witness ==
    /\ last.op = "on_update_member_videos" /\ last.popped
    /\ update_member_waiting_list = <<>>
    /\ updator = "waiting" /\ update_all_source_id > 0
    /\ Polled # {}

(***************************************************************************)
(* The order of the waiting list, under SpecRefresh.                       *)
(***************************************************************************)
\* The place of an id in a sequence without repetition, 0 if it is absent.
PlaceOf(s, x) == IF x \in Range(s) THEN CHOOSE i \in 1..Len(s) : s[i] = x ELSE 0

NoRepetition(s) == \A i, k \in 1..Len(s) : s[i] = s[k] => i = k

\* Ids that wait before and after a step keep their order.
OrderKept ==
    \A a, b \in Waiting \cap Range(update_member_waiting_list') :
        PlaceOf(update_member_waiting_list, a) < PlaceOf(update_member_waiting_list, b)
            => PlaceOf(update_member_waiting_list', a) < PlaceOf(update_member_waiting_list', b)

\* Ids that start to wait are put behind those that wait already.
NewBehindOld ==
    \A a \in Waiting \cap Range(update_member_waiting_list') :
        \A b \in Range(update_member_waiting_list') \ Waiting :
            PlaceOf(update_member_waiting_list', a) < PlaceOf(update_member_waiting_list', b)

\* The pass (the request that starts it, its timer step) submits the id
\* that waited first, the first member if nothing waited at the request.
HeadSubmitted ==
    (last'.op \in {"on_update_all_member_videos", "update_all_member_videos"}
        /\ Len(futures') > Len(futures)) =>
        LET job == futures'[Len(futures')]
        IN  /\ job.by_all
            /\ job.mid = IF update_member_waiting_list # <<>>
                         THEN Head(update_member_waiting_list) ELSE Head(members)
            /\ job.mid \notin Range(update_member_waiting_list')
            /\ last'.op = "update_all_member_videos" => job.mid \in Waiting

\* A request for one member takes it out of the waiting list.
RequestedLeaves ==
    last'.op = "on_update_member_videos" =>
        /\ last'.mid \notin Range(update_member_waiting_list')
        /\ Range(update_member_waiting_list') = Waiting \ {last'.mid}

\* C17: the pass submits the ids in the order in which they began to wait:
\* an id waits at most once, ids that wait keep their order and new ids go
\* behind them, the pass submits the head of the list, and a request for a
\* single member removes it from the list, so the pass, which submits only
\* ids that wait, does not submit it again.
C17_ArrivalOrderNoRepeat ==
    /\ [](NoRepetition(update_member_waiting_list))
    /\ [][OrderKept /\ NewBehindOld]_vars
    /\ [][HeadSubmitted]_vars
    /\ [][RequestedLeaves]_vars

\* The pass was asked for again while member 2 waited: 2 is still ahead of
\* the members that were put back into the list.
C17_Witness ==
    /\ last.op = "update_all_member_videos"
    /\ Len(update_member_waiting_list) = 2
    /\ update_member_waiting_list[2] = 1
    /\ \E j \in DOMAIN futures : futures[j].by_all /\ futures[j].mid # 1


(***************************************************************************)
(* Opening store files of older versions.                                  *)
(***************************************************************************)
\* The tables an older file may have: each lacks up to MaxMissing of the
\* expected columns and holds one row, or does not exist.
OlderTables(table) ==
    {[cols |-> cols, rows |-> IF cols = {} THEN {} ELSE {[c \in cols |-> 1]}] :
        cols \in {S \in SUBSET ColumnNames(table) :
                     S = {} \/ Cardinality(ColumnNames(table) \ S) <= MaxMissing}}

RecordedVersions == {{}, {[key |-> "db_version", value |-> "0.0"]},
                     {[key |-> "db_version", value |-> db_version]}}

SchemeInit ==
    /\ table_info \in [DOMAIN table_columns -> UNION {OlderTables(t) : t \in DOMAIN table_columns}]
    /\ \A t \in DOMAIN table_columns : table_info[t] \in OlderTables(t)
    /\ config \in RecordedVersions
    /\ members = <<>> /\ videos = {} /\ durable = {} /\ removed_member = {}
    /\ remote = [m \in Mids |-> <<>>]
    /\ futures = <<>>
    /\ owner_queue = <<>>
    /\ update_member_waiting_list = <<>>
    /\ update_all_source_id = -1
    /\ updator = "none"
    /\ liststore_member = <<>>
    /\ member_id_at_cursor = -1
    /\ listbox = <<>> /\ unparented = {}
    /\ load_video_source_id = -1
    /\ insertor = NoInsertor
    /\ misc_jobs = <<>>
    /\ timestamp_last_sweep = 0
    /\ timestamp_last_orphaned_check = 0
    /\ sweep_threads = {}
    /\ now = 0
    /\ loading_member = FALSE
    /\ record_order_id = -1
    /\ appender = NoAppender
    /\ inserts = <<>>
    /\ executors = [p \in Pools |-> NoJobs]
    /\ last = Step("start", "owner")

SpecScheme == SchemeInit /\ [][DataBase__init__]_vars

Opened == last.op = "DataBase.__init__"

\* Every expected column exists.
AllColumns == \A t \in DOMAIN table_columns : ColumnNames(t) \subseteq table_info[t].cols

\* The columns and the rows the file had before are there with their values.
NothingLost ==
    \A t \in DOMAIN table_columns :
        /\ last.before[t].cols \subseteq table_info[t].cols
        /\ \A old \in last.before[t].rows :
               \E row \in table_info[t].rows : \A c \in DOMAIN old : row[c] = old[c]

\* C18: after DataBase.__init__ on any existing file every expected column
\* exists, the columns and rows it had are kept with their values, and
\* opening the file again changes nothing.
C18_MigrationAdditiveIdempotent ==
    /\ [](Opened => (~last.raised /\ AllColumns /\ NothingLost))
    /\ [][(Opened /\ last'.op = "DataBase.__init__") =>
              (table_info' = table_info /\ config' = config)]_vars


(***************************************************************************)
(* Adding members: the store has member 1, the remote side lists nothing   *)
(* or some videos for the others.                                          *)
(***************************************************************************)
Listings == {<<>>, Pages(<<Item(MaxMid, 1)>>), Pages(<<Item(MaxMid, 2), Item(MaxMid, 1)>>)}

BootstrapInit ==
    /\ Idle
    /\ members = <<1>>
    /\ videos = {v \in StartVideos : v.mid = 1}
    /\ durable = videos
    /\ config = {}
    /\ removed_member = {}
    /\ \E listing \in Listings :
           remote = [m \in Mids |-> IF m = 1 THEN Pages(<<Item(m, 1)>>)
                                    ELSE IF m = MaxMid THEN listing ELSE <<>>]
    /\ futures = <<>>
    /\ liststore_member = <<setup_member_row_data(StartVideos, 1)>>
    /\ member_id_at_cursor = -1
    /\ now = max_residue_time + 1

BootstrapNext ==
    \/ Bootstrap
    \/ \E m \in Mids : Publish(m)
    \/ \E mid \in Mids : set_cursor(mid)
    \/ insert_generator

SpecBootstrap == BootstrapInit /\ [][BootstrapNext]_vars

\* C19: when get_all_video_pages returns no item for a member id,
\* fetch_new_member hands no add_a_member to the main loop, and the store
\* gets neither a members row nor a videos row.
C19_EmptyFetchRejected ==
    /\ [](\A q \in DOMAIN owner_queue :
              owner_queue[q].func = "add_a_member" => owner_queue[q].video_list # <<>>)
    /\ [][(last'.op = "add_a_member" /\ last'.empty) =>
              (members' = members /\ videos' = videos)]_vars

\* C20: the store holds at most one members row for an id, and add_a_member
\* for an id the store has raises and leaves the members rows, the videos
\* and the member list as they were.
C20_OneRowPerMember ==
    /\ [](NoRepetition(members))
    /\ [][(last'.op = "add_a_member" /\ last'.mid \in Range(members)) =>
              /\ last'.raised
              /\ members' = members
              /\ videos' = videos
              /\ liststore_member' = liststore_member]_vars

\* The second of two add_a_member callbacks for one id has just failed: the
\* listing was not empty and the store has the member.
C20_Witness ==
    /\ last.op = "add_a_member" /\ last.raised /\ ~last.empty
    /\ last.mid \in Range(members) /\ last.mid # 1
    /\ Cardinality({r \in videos : r.mid = last.mid}) > 0


(***************************************************************************)
(* get_all_video_pages alone: any total, any page size.                    *)
(***************************************************************************)
GetAllVideoPages ==
    \E total \in 0..PagesMaxTotal, page_size \in 1..PagesMaxSize :
        LET res == get_all_video_pages_of([i \in 1..total |-> i], page_size)
        IN  /\ last' = [op |-> "get_all_video_pages", ctx |-> "worker",
                        total |-> total, page_size |-> page_size,
                        requested |-> res.requested, video_list |-> res.video_list]
            /\ UNCHANGED <<storeVars, remote, syncVars, owner_queue, uiVars, cleanVars,
                           inserts, executors, table_info, loadVars>>

SpecPages == UpsertInit /\ [][GetAllVideoPages]_vars

\* The smallest page number N >= 1 with N * page_size >= total.
LastPage(total, page_size) ==
    CHOOSE N \in 1..(total + 1) :
        /\ N * page_size >= total
        /\ \A k \in 1..(N - 1) : k * page_size < total

\* C21: get_all_video_pages requests the pages 1..N in ascending order, N
\* the smallest page number with N * page_size >= total, no page beyond N,
\* and returns the items of the pages in page order.
C21_PagesOneToN ==
    last.op = "get_all_video_pages" =>
        /\ last.requested = [i \in 1..LastPage(last.total, last.page_size) |-> i]
        /\ last.video_list = [i \in 1..last.total |-> i]


(***************************************************************************)
(* get_member_videos alone: any videos of member 1, with or without its    *)
(* members row, any count and before.                                      *)
(***************************************************************************)
\* The tables videos with rows of member 1, one row for a bvid.
QueryStores ==
    UNION {{ {[bvid |-> b, mid |-> 1, created |-> f[b], ver |-> 0, visited |-> 0] :
                 b \in S} : f \in [S -> 0..QueryMaxCreated]} :
           S \in SUBSET (1..QueryMaxBvid)}

QueryInit ==
    /\ Idle
    /\ members \in {<<>>, <<1>>}
    /\ videos \in QueryStores
    /\ durable = videos
    /\ config = {}
    /\ removed_member = {}
    /\ remote = [m \in Mids |-> <<>>]
    /\ futures = <<>>
    /\ liststore_member = <<>>
    /\ member_id_at_cursor = -1
    /\ now = 0

GetMemberVideos ==
    \E count \in -1..QueryMaxBvid, before \in -1..(QueryMaxCreated + 1) :
        /\ last' = [op |-> "get_member_videos", ctx |-> "owner", mid |-> 1,
                    count |-> count, before |-> before,
                    results |-> get_member_videos(members, videos, 1, count, before)]
        /\ UNCHANGED <<storeVars, remote, syncVars, owner_queue, uiVars, cleanVars,
                       inserts, executors, table_info, loadVars>>

SpecQuery == QueryInit /\ [][GetMemberVideos]_vars

\* The rows of the member that pass the filter of before.
Selected(mid, before) ==
    {r \in videos : r.mid = mid /\ (before < 0 \/ r.created < before)}

\* results is what the claim promises for the rows sel: rows of sel, each
\* once, by created descending, all of them or the first count of them.
QueryResultOf(results, sel, count) ==
    /\ Range(results) \subseteq sel
    /\ \A i, k \in 1..Len(results) : i < k =>
           /\ results[i] # results[k]
           /\ results[i].created >= results[k].created
    /\ Len(results) = IF count < 0 \/ count >= Cardinality(sel)
                      THEN Cardinality(sel) ELSE count
    /\ \A r \in sel \ Range(results) :
           \A i \in 1..Len(results) : results[i].created >= r.created

\* C22: get_member_videos(mid, count, before) returns the videos rows of
\* mid with before < 0 or created < before, by created descending, the
\* first count of them for count >= 0 and all of them for count < 0.
C22_MemberVideosQuery ==
    last.op = "get_member_videos" =>
        QueryResultOf(last.results, Selected(last.mid, last.before), last.count)

\* C22 for an id that has its members row.
C22_QueryOfStoredMember ==
    (last.op = "get_member_videos" /\ last.mid \in Range(members)) =>
        QueryResultOf(last.results, Selected(last.mid, last.before), last.count)


(***************************************************************************)
(* match_func alone: any key and value, with and without immatcher.        *)
(***************************************************************************)
\* The matchers match_func may find for the words of a key: none, or one
\* whose contains answers each word in some way.
Matchers(key) ==
    {NoIMMatcher} \cup
    {[installed |-> TRUE, contains |-> f] : f \in [Range(split(lower(key))) -> BOOLEAN]}

\* One call of match_func in a run.
MatchFunc ==
    /\ last.op = "start"
    /\ \E key \in SeqsUpTo(Chars, MatchMaxKey), value \in SeqsUpTo(Chars, MatchMaxValue) :
        \E IMMatcher \in Matchers(key) :
            /\ last' = [op |-> "match_func", ctx |-> "owner", key |-> key,
                        value |-> value, IMMatcher |-> IMMatcher,
                        matched |-> match_func(key, value, IMMatcher)]
            /\ UNCHANGED <<storeVars, remote, syncVars, owner_queue, uiVars, cleanVars,
                           inserts, executors, table_info, loadVars>>

SpecMatch == UpsertInit /\ [][MatchFunc]_vars

Matched == last.op = "match_func"

\* Every word of the lower-cased key is in the lower-cased value.
EveryTokenIn(key, value) ==
    \A k \in Range(split(lower(key))) : In(k, lower(value))

\* C23 as stated: match_func is true exactly if every white-space separated
\* word of the lower-cased key is a substring of the lower-cased value.
C23_MatchIffEveryToken ==
    Matched => (last.matched <=> EveryTokenIn(last.key, last.value))

\* C23: without immatcher match_func is true exactly if every white-space
\* separated word of the lower-cased key is a substring of the lower-cased
\* value; with immatcher it is true exactly if IMMatcher.contains accepts
\* every word; a key without a word matches every value.
C23_MatchIffEveryTokenFound ==
    Matched =>
        /\ ~last.IMMatcher.installed =>
               (last.matched <=> EveryTokenIn(last.key, last.value))
        /\ last.IMMatcher.installed =>
               (last.matched <=>
                    \A k \in Range(split(lower(last.key))) : last.IMMatcher.contains[k])
        /\ split(lower(last.key)) = <<>> => last.matched

\* A key of two words in upper and lower case, both found in the value,
\* without immatcher.
C23_Witness ==
    /\ Matched /\ last.matched /\ ~last.IMMatcher.installed
    /\ Len(split(lower(last.key))) = 2
    /\ lower(last.key) # last.key


(***************************************************************************)
(* A member that was removed is added again while its removal record is    *)
(* still in the store; the cleaner sweeps as time goes on.                 *)
(***************************************************************************)
ReaddInit ==
    /\ Idle
    /\ members = <<1>>
    /\ videos = {v \in StartVideos : v.mid = 1}
    /\ durable = videos
    /\ config = {}
    /\ \E stamp \in 0..MaxStamp : removed_member = {[mid |-> MaxMid, time_stamp |-> stamp]}
    /\ remote = [m \in Mids |-> Pages(<<Item(m, 1)>>)]
    /\ futures = <<>>
    /\ liststore_member = <<setup_member_row_data(StartVideos, 1)>>
    /\ member_id_at_cursor = -1
    /\ now = max_residue_time

ReaddNext ==
    \/ Bootstrap
    \/ Sweep
    \/ Tick

SpecReadd == ReaddInit /\ [][ReaddNext]_vars

\* C25: sweep_removed_member never selects the id of a member that is in
\* the store, also when the member was removed and added again and its
\* removal record has become older than max_residue_time.
C25_StoredMemberNotSwept ==
    SweepCalled => \A i \in 1..Len(last.call.remove_mid_list) :
                       last.call.remove_mid_list[i] \notin Range(members)


(***************************************************************************)
(* Sweeps, then the program is started again: CacheCleaner.__init__ sets   *)
(* the two time stamps in memory to 0 while config keeps what was written. *)
(***************************************************************************)
\* The program ends (the interpreter waits for the sweep threads) and is
\* started again: CacheCleaner.__init__.
CacheCleaner__init__ ==
    /\ \A t \in sweep_threads : t.pc # "started"
    /\ timestamp_last_sweep # 0 \/ timestamp_last_orphaned_check # 0
    /\ timestamp_last_sweep' = 0
    /\ timestamp_last_orphaned_check' = 0
    /\ sweep_threads' = {}
    /\ last' = Step("CacheCleaner__init__", "owner")
    /\ UNCHANGED <<storeVars, remote, syncVars, owner_queue, uiVars, now, inserts,
                   executors, table_info, loadVars>>

RestartInit ==
    /\ CleanerInit
    /\ config = {}

RestartNext ==
    \/ CleanerNext
    \/ CacheCleaner__init__

SpecRestart == RestartInit /\ [][RestartNext]_vars

\* The time stamps in memory are those of a cleaner just constructed.
JustStarted == timestamp_last_sweep = 0 /\ timestamp_last_orphaned_check = 0

Persisted(key) == get_config_of(config, key)

\* The step is the first sweep cycle of a cleaner just constructed, over a
\* config in which an earlier cycle has written a time stamp.
FirstCycle ==
    /\ JustStarted
    /\ Persisted("timestamp_last_sweep") # PyNone
          \/ Persisted("timestamp_last_orphaned_check") # PyNone
    /\ last'.op = "sweep_member_caches"

\* C26: the first sweep cycle after a restart raises nothing and works on
\* the persisted values of timestamp_last_sweep and
\* timestamp_last_orphaned_check (each is afterwards its persisted value or
\* the time of this cycle, and the orphan check measures the time since the
\* persisted check), also when only one of the two was ever persisted.
C26_RestartRestoresTimestamps ==
    [][FirstCycle =>
          /\ ~last'.raised
          /\ Persisted("timestamp_last_sweep") # PyNone =>
                timestamp_last_sweep' \in {float(Persisted("timestamp_last_sweep")), now}
          /\ Persisted("timestamp_last_orphaned_check") # PyNone =>
                /\ timestamp_last_orphaned_check'
                      \in {float(Persisted("timestamp_last_orphaned_check")), now}
                /\ last'.orphan.called =>
                      last'.orphan.elapsed
                          = now - float(Persisted("timestamp_last_orphaned_check"))]_vars

\* A first cycle that read timestamp_last_sweep back and raised at
\* float(None) for the time stamp of the orphan check.
RestoreRaised ==
    /\ last.op = "sweep_member_caches"
    /\ last.raised
    /\ ~last.orphan.called
    /\ Persisted("timestamp_last_orphaned_check") = PyNone


(***************************************************************************)
(* The orphan check of the cleaner over a store with members and a cache   *)
(* directory that holds the directories of some ids.                       *)
(***************************************************************************)
\* The ids that can have a directory under CACHE_DIR: those of the members
\* and one of no member.
CacheIds == 1..(MaxMid + 1)

OrphanInit ==
    /\ Idle
    /\ members \in {<<>>, <<1>>, <<1, MaxMid>>}
    /\ videos = {} /\ durable = {}
    /\ config = {}
    /\ removed_member = {}
    /\ remote = [m \in Mids |-> <<>>]
    /\ futures = <<>>
    /\ liststore_member = [i \in 1..Len(members) |-> setup_member_row_data({}, members[i])]
    /\ member_id_at_cursor = -1
    /\ now = max_residue_time

OrphanNext ==
    \/ \E dirs \in SUBSET CacheIds : sweep_member_caches_on(dirs)
    \/ Tick

SpecOrphan == OrphanInit /\ [][OrphanNext]_vars

\* C27: when sweep_orphaned_cache goes on to its scan, it raises nothing and
\* hands to do_sweep_mid_list exactly the ids that have a cache directory
\* and are not the mid of a row of members (and starts no thread when there
\* is no such id); the id of a member is never handed over.
C27_OrphanScanHandsOrphans ==
    [][(last'.op = "sweep_member_caches" /\ last'.orphan.scan) =>
          /\ ~last'.raised
          /\ IF last'.dirs \ Range(members) = {}
             THEN sweep_threads' = sweep_threads
             ELSE \E t \in sweep_threads' \ sweep_threads :
                     Range(t.mid_list) = last'.dirs \ Range(members)]_vars


(***************************************************************************)
(* The chunked insertion into the video list while members are refreshed,  *)
(* the cursor moves and members are removed.                               *)
(***************************************************************************)
LoadNext == Sync \/ Browse

SpecLoad == Init /\ [][LoadNext]_vars

\* The bvid of the video rows of a listbox, in order.
RECURSIVE Bvids(_)
Bvids(lb) ==
    IF lb = <<>> THEN <<>>
    ELSE IF Head(lb) = LoadMoreVideoRow THEN Bvids(Tail(lb))
    ELSE <<Head(lb).bvid>> \o Bvids(Tail(lb))

BatchBvids(gen) == [i \in 1..Len(gen.video_list) |-> gen.video_list[i].bvid]

\* The rows of its batch a generator has inserted.
Progress(gen) == Len(gen.video_list) - Len(gen.list)

Occurrences(seq, x) == Cardinality({i \in 1..Len(seq) : seq[i] = x})

\* The list holds the batch of gen in batch order, at its top for a
\* prepending load and at its end otherwise, and each video of it once.
HoldsBatch(lb, gen) ==
    LET rows == Bvids(lb)
        batch == BatchBvids(gen)
    IN  /\ Len(rows) >= Len(batch)
        /\ IF gen.reverse
           THEN SubSeq(rows, 1, Len(batch)) = batch
           ELSE SubSeq(rows, Len(rows) - Len(batch) + 1, Len(rows)) = batch
        /\ \A i \in 1..Len(batch) : Occurrences(rows, batch[i]) = 1

\* A step of the owner adds at most InsertStep video rows to the list.
StepBounded == Len(Bvids(listbox')) - Len(Bvids(listbox)) <= InsertStep

\* A generator that has rows to insert waits for its timer: it has yielded
\* after a multiple of InsertStep rows and load_video_source_id is its timer.
Yielded ==
    insertor.live =>
        /\ load_video_source_id > 0
        /\ Progress(insertor) > 0
        /\ Progress(insertor) % InsertStep = 0

\* The generator ends with this step of its timer.
LastStep == insertor.live /\ ~insertor'.live /\ last'.op = "insert_generator"

\* C28: a step inserts at most InsertStep rows; between steps the generator
\* waits for its timer; a load leaves no generator but its own (the single
\* timer id load_video_source_id is removed before rows are inserted); and
\* when the generator ends with a step of its timer, the list holds every
\* video of its batch once, in batch order.
C28_ChunkedInsertion ==
    [][/\ StepBounded
       /\ Yielded'
       /\ LastStep => HoldsBatch(listbox', insertor)]_vars

\* Every step inserts at most InsertStep rows and leaves a generator that
\* has yielded waiting for the timer load_video_source_id names.
ChunkedAndYielding == [][StepBounded /\ Yielded']_vars


(***************************************************************************)
(* Videos are marked visited while members are refreshed.                  *)
(***************************************************************************)
Bvid == {v.bvid : v \in StartVideos} \cup {Item(m, n).bvid : m \in Mids, n \in 1..MaxVideos}

VisitedNext ==
    \/ Sync
    \/ \E bvid \in Bvid : on_mark_video_visited(bvid)

SpecVisited == Init /\ [][VisitedNext]_vars

\* C29: a video that is visited in the store is visited after every step
\* that leaves its member in the store: no step of a refresh sets visited
\* back to 0 (or takes the row away).
C29_VisitedStays ==
    [][\A r \in videos :
          (r.visited = 1 /\ r.mid \in Range(members')) =>
              \E s \in videos' : s.bvid = r.bvid /\ s.visited = 1]_vars

\* The bvid of the rows of a table or of the videos of a list.
StoredBvids(vtbl) == {r.bvid : r \in vtbl}
ReportedBvids(video_list) == {video_list[i].bvid : i \in 1..Len(video_list)}

\* C30: a refresh callback reports as new exactly the videos it adds to the
\* store: every video it reports was not in the store before it (no earlier
\* refresh has added and reported it), and every video it adds it reports.
C30_ReportedByOneRefresh ==
    [][last'.op = "add_new_member_videos" =>
          /\ ReportedBvids(last'.video_list) \cap StoredBvids(videos) = {}
          /\ StoredBvids(videos') \ StoredBvids(videos) \subseteq ReportedBvids(last'.video_list)]_vars


\* C31: every row of videos has the mid of a row of members, in every
\* interleaving of the removal of members with their refresh jobs.
C31_VideosHaveMember == \A v \in videos : v.mid \in Range(members)


(***************************************************************************)
(* Paging backward through the videos of member 1, any created values      *)
(* (also equal ones) and any page length.                                  *)
(***************************************************************************)
PageThrough ==
    \E count \in 1..QueryMaxBvid :
        /\ last' = [op |-> "PageBackward", ctx |-> "owner", mid |-> 1, count |-> count,
                    results |-> PageBackward(members, videos, 1, count)]
        /\ UNCHANGED <<storeVars, remote, syncVars, owner_queue, uiVars, cleanVars,
                       inserts, executors, table_info, loadVars>>

SpecPaging == QueryInit /\ [][PageThrough]_vars

\* C32: paging backward with count = k and before = created of the last row
\* of the page before, until a page is empty, returns every videos row of a
\* member of the store exactly once, for every k >= 1 and all created values.
C32_PagingReturnsAllOnce ==
    (last.op = "PageBackward" /\ last.mid \in Range(members)) =>
        /\ Range(last.results) = {r \in videos : r.mid = last.mid}
        /\ Len(last.results) = Cardinality({r \in videos : r.mid = last.mid})


(***************************************************************************)
(* The update-all pass over three members while members are removed.       *)
(***************************************************************************)
RemovePassNext ==
    \/ on_update_all_member_videos
    \/ update_all_member_videos
    \/ \E j \in DOMAIN futures : do_it(j)
    \/ \E q \in DOMAIN owner_queue : run_add_new_member_videos(q)
    \/ \E mid \in RefreshMids : set_cursor(mid)
    \/ insert_generator
    \/ on_remove_selected_member

SpecRemovePass == RefreshStart({1}) /\ [][RemovePassNext]_vars

\* C33: the pass of update_all_member_videos goes on while members wait:
\* it has not ended (by the removal of a member that was waiting, or
\* otherwise) as long as update_member_waiting_list holds an id.
C33_RemovalDoesNotStopPass ==
    update_member_waiting_list # <<>> => updator = "waiting"

\* The timer of the pass met the id of a removed member and the pass ended
\* there, a member of the store still waiting.
PassStoppedByRemoved ==
    /\ last.op = "update_all_member_videos"
    /\ updator = "none"
    /\ update_all_source_id > 0
    /\ \E m \in Range(update_member_waiting_list) : m \in Range(members)


(***************************************************************************)
(* The update-all pass over a store with no member, one member, or more.   *)
(***************************************************************************)
PassAnyInit ==
    \E n \in 0..(MaxMid + 1) :
        /\ Idle
        /\ members = [i \in 1..n |-> i]
        /\ videos = {[bvid |-> Item(m, 1).bvid, mid |-> m, created |-> 1, ver |-> 0,
                      visited |-> 0] : m \in 1..n}
        /\ durable = videos
        /\ config = {}
        /\ removed_member = {}
        /\ remote = [m \in RefreshMids |->
                        IF m = 1 THEN Pages(<<Item(m, 2), Item(m, 1)>>)
                        ELSE Pages(<<Item(m, 1)>>)]
        /\ futures = <<>>
        /\ liststore_member = [i \in 1..n |-> setup_member_row_data(videos, i)]
        /\ member_id_at_cursor = -1
        /\ now = max_residue_time + 1

\* update-all is triggered while no pass is running.
StartPass == updator = "none" /\ on_update_all_member_videos

PassAnyNext ==
    \/ StartPass
    \/ update_all_member_videos
    \/ \E j \in DOMAIN futures : do_it(j)
    \/ \E j \in DOMAIN futures : do_it_failing(j)
    \/ \E q \in DOMAIN owner_queue : run_add_new_member_videos(q)

\* The timer, the jobs and the callbacks are scheduled as in SpecPass.
SpecPassAny ==
    /\ PassAnyInit
    /\ [][PassAnyNext]_vars
    /\ SF_vars(update_all_member_videos)
    /\ WF_vars(\E j \in Polled : do_it(j) \/ do_it_failing(j))
    /\ WF_vars(\E j \in DOMAIN futures : do_it(j) \/ do_it_failing(j))
    /\ WF_vars(\E q \in DOMAIN owner_queue : run_add_new_member_videos(q))

\* A step of the pass: its first step in on_update_all_member_videos or
\* next(updator) run by its timer.
PassStep == last.op \in {"on_update_all_member_videos", "update_all_member_videos"}

\* The pass is over: nothing waits, no timer is left.
PassOver ==
    /\ updator = "none"
    /\ update_member_waiting_list = <<>>
    /\ update_all_source_id = -1

\* C34: a pass that was started is over at some time, with an empty waiting
\* list, its timer released and update_all_source_id = -1, and no step of a
\* pass raises, for every number of members, zero too, and when the pass
\* ends in its first step.
C34_PassEndsWithoutRaising ==
    /\ [](PassStep => ~last.raised)
    /\ (PassStep ~> PassOver)

\* A pass that was started is over at some time.
PassesEnd == PassStep ~> PassOver


(***************************************************************************)
(* The cover images of the rows while members are refreshed: a refresh of  *)
(* the member under the cursor prepends its new videos to the list.        *)
(***************************************************************************)
CoverNext ==
    \/ Sync
    \/ \E mid \in Mids : set_cursor(mid)
    \/ insert_generator
    \/ Images

SpecCover == Init /\ [][CoverNext]_vars

\* C35: a video row in the list has its image, or a load_image job that is
\* waiting, running or completing; no load (one that keeps the rows of the
\* list in particular) leaves a displayed row whose job was cancelled.
C35_DisplayedRowGetsImage ==
    \A i \in 1..Len(listbox) :
        listbox[i] # LoadMoreVideoRow =>
            \/ listbox[i].image
            \/ listbox[i].job \in {"pending", "running", "callback"}

(***************************************************************************)
(* The load of the member list at start, over the stored members and the   *)
(* stored member order.                                                    *)
(***************************************************************************)
StoredOrders == {l \in OrderLists : \A i, j \in DOMAIN l : l[i] = l[j] => i = j}

LoadMembersInit ==
    /\ Idle
    /\ members \in StoredOrders
    /\ \E seen \in SUBSET Range(members) :
          videos = {[bvid |-> Item(m, 1).bvid, mid |-> m, created |-> 1, ver |-> 0,
                     visited |-> IF m \in seen THEN 1 ELSE 0] : m \in Range(members)}
    /\ durable = videos
    /\ config \in {{}} \cup {{[key |-> "member_order", value |-> json_dumps(l)]} :
                                l \in StoredOrders}
    /\ removed_member = {}
    /\ remote = [m \in Mids |-> <<>>]
    /\ futures = <<>>
    /\ liststore_member = <<>>
    /\ member_id_at_cursor = -1
    /\ now = 0

LoadMembersNext ==
    \/ load_members
    \/ append_members_step
    \/ do_record_member_order_do_it

SpecLoadMembers == LoadMembersInit /\ [][LoadMembersNext]_vars

\* C36: in every step of load_members that appends rows to the member list the
\* loading_member flag is true, and the step schedules no save of the member
\* order.
C36_LoadSchedulesNoSave ==
    (last.op \in {"load_members", "append_members"} /\ last.appended > 0)
        => (last.loading_member /\ ~last.scheduled)


(***************************************************************************)
(* Videos are marked visited while members are refreshed, shown and        *)
(* removed.                                                                *)
(***************************************************************************)
\* The store of Init, while the remote side lists a second video of member 1.
MarkInit ==
    /\ Idle
    /\ members = [i \in 1..MaxMid |-> i]
    /\ videos = StartVideos
    /\ durable = videos
    /\ config = {}
    /\ removed_member = {}
    /\ remote = [m \in Mids |-> IF m = 1 THEN Pages(<<Item(m, 2), Item(m, 1)>>)
                                ELSE Pages(<<Item(m, 1)>>)]
    /\ futures = <<>>
    /\ liststore_member = [i \in 1..MaxMid |-> setup_member_row_data(StartVideos, i)]
    /\ member_id_at_cursor = -1
    /\ now = max_residue_time + 1

MarkNext ==
    \/ \E mid \in Mids : on_update_member_videos(mid)
    \/ \E j \in DOMAIN futures : do_it(j)
    \/ \E q \in DOMAIN owner_queue : run_add_new_member_videos(q)
    \/ Browse
    \/ \E bvid \in Bvid : on_mark_video_visited(bvid)

SpecMark == MarkInit /\ [][MarkNext]_vars

\* The rows of the member list that show the member mid.
MemberRows(store, mid) == {i \in DOMAIN store : store[i].mid = mid}

====
